---------------------------- MODULE Spec2Model ----------------------------
(***************************************************************************)
(* A model of the voiceguard analysis pipeline:                            *)
(*   - windowing.py : iter_windows, estimate_num_windows and the streaming *)
(*                    StreamWindowProcessor                                *)
(*   - alerts.py    : the AlertTracker hysteresis state machine, driven as *)
(*                    analysis.analyze_audio drives it                     *)
(*   - engine.py    : VoiceGuardEngine backend selection and infer_window  *)
(*   - dsp/enhance.py : the session state of AudioEnhancer and NoiseReducer*)
(*   - analysis.py  : analyze_audio, the offline orchestrator              *)
(*   - ui/live_tab.py, audio/mic_capture.py : the live analyzer thread and *)
(*                    the capture queue that feeds it                      *)
(*   - vad.py       : rms_db and the is_speech_window gate                 *)
(*                                                                         *)
(* Units.  Sample positions are integers.  Times are integers counted in   *)
(* sample periods (t = start_sample / sample_rate with sample_rate = 1     *)
(* tick), so the float arithmetic of alerts.py is modelled exactly, without *)
(* rounding.  Probabilities and confidences are integers in percent; the   *)
(* float NaN is a number no score can take, with Python's comparison rules.*)
(***************************************************************************)
EXTENDS Integers, Sequences, FiniteSets, TLC

VARIABLES
    processor,   \* StreamWindowProcessor fields
    signal,      \* every sample pushed so far, in order (history)
    emitted,     \* concatenation of the lists push has returned (history)
    lastPush,    \* size of the chunk and the list returned by the last push
    alert,       \* AlertTracker fields
    clip,        \* the driver of the tracker: window length, windows fed, phase
    runLen,      \* length of the current run of above-threshold speech windows (history)
    maxRun,      \* longest such run so far (history)
    interrupted, \* number of non-empty runs ended by a window (history)
    actLog,      \* one record per INACTIVE -> ACTIVE transition (history)
    lastFinalize, \* the finalize calls so far and the tracker before the last (history)
    held,        \* the list a caller got from the segments property, and what it did to it
    config,      \* AppConfig.model and AppConfig.enhance as the engine reads them
    env,         \* what the file system and the model libraries answer
    engine,      \* VoiceGuardEngine fields
    result,      \* what the last infer_window call returned
    inferred,    \* number of infer_window calls so far
    resetLog,    \* what reset_state found and what followed it (history)
    an,          \* analyze_audio: its inputs, its locals and what it reports
    live,        \* _LiveAnalyzerThread: the locals of run and the interruption flag
    capture,     \* MicCapture / SystemAudioCapture: the queue and the running flag
    ref,         \* the trackers analyze_audio would hold after the same windows (history)
    vad,         \* one call of is_speech_window: its arguments and what it returned
    entry,       \* one call of a segmentation entry point: its arguments and its outcome
    hf,          \* one call of _pick_fake_index: its argument and what it returned
    mic,         \* MicCapture / SystemAudioCapture: start, the stream and its callback
    tab          \* LiveTab: its fields, the analyzer threads and the queued signals

varsWin == <<processor, signal, emitted, lastPush>>

varsAlert == <<alert, clip, runLen, maxRun, interrupted, actLog, lastFinalize,
               held>>

varsEngine == <<config, env, engine, result, inferred, resetLog>>

varsAnalyze == <<an>>

\* The variables of the orchestrators, which the component specifications
\* leave alone
varsDrivers == <<an, live, capture, ref, vad, entry, hf, mic, tab>>

varsShell == <<hf, mic, tab>>

varsEntry == <<vad, entry, varsShell>>

varsLive == <<live, capture, ref>>

vars == <<processor, signal, emitted, lastPush,
          alert, clip, runLen, maxRun, interrupted, actLog, lastFinalize, held,
          config, env, engine, result, inferred, resetLog,
          an, live, capture, ref, vad, entry, hf, mic, tab>>

-----------------------------------------------------------------------------
(* Bounds of the model *)

MaxWindow == 5
MaxHop == 4
MaxChunk == 4
MaxSignal == 9
MaxHold == 4
MaxFed == 6

MaxInfer == 3
MaxSessionInfer == 4
MaxSessionWindow == 2
MaxClasses == 3
MaxOverflow == 2
MaxMicChunks == 4
MaxThreads == 3

\* The block the audio callback delivers, in samples
BlockSamples == 1
MaxVadLen == 3
MaxHalf == 4
MaxEntrySamples == 2
MaxEntryClip == 3

MaxClip == 12
MaxClipWindow == 2

MaxLiveSignal == 4
MaxLiveChunk == 2

\* AppConfig.alert_threshold, in percent
AlertThreshold == 80

\* SmoothingConfig.ema_alpha, in percent
EmaAlpha == 35

\* VadConfig.rms_db_threshold, in dB
RmsDbThreshold == -45
EpsDb == -24000

\* queue.Queue(maxsize=64)
QueueMaxsize == 64

\* float("nan") and float("-inf") among the integers that stand for floats
NaN == 1000000
NegInf == -1000000

-----------------------------------------------------------------------------
(* Python helpers *)

Max2(a, b) == IF a >= b THEN a ELSE b
Min2(a, b) == IF a <= b THEN a ELSE b

\* s[a:b] for 0 <= a, with both ends clipped to the length of s
PySlice(s, a, b) ==
    LET lo == Min2(a, Len(s))
        hi == Min2(b, Len(s))
    IN  IF hi <= lo THEN <<>> ELSE SubSeq(s, lo + 1, hi)

\* a >= b on floats: false when either is NaN
FGe(a, b) == a # NaN /\ b # NaN /\ a >= b

\* np.zeros((n,))
Zeros(n) == [i \in 1..n |-> 0]

\* The value of the sample with global index i.  The segmenters never look
\* at sample values, so a signal whose samples are pairwise distinct (and
\* different from the padding value 0) shows every drop, shift or
\* duplication of a sample.
SampleAt(i) == i + 1

\* The chunk of n samples that follows a signal of length have
ChunkAfter(have, n) == [i \in 1..n |-> SampleAt(have + i - 1)]

-----------------------------------------------------------------------------
(* windowing.py: offline segmentation *)

estimate_num_windows_noShort(num_samples, window_samples, hop_samples) ==
    IF num_samples <= 0 \/ window_samples <= 0 \/ hop_samples <= 0 THEN 0
    ELSE 1 + ((num_samples - window_samples) \div hop_samples)

estimate_num_windows(num_samples, window_samples, hop_samples) ==
    IF num_samples <= 0 \/ window_samples <= 0 \/ hop_samples <= 0 THEN 0
    ELSE IF num_samples < window_samples THEN 1
    ELSE 1 + ((num_samples - window_samples) \div hop_samples)

\* for start in range(start, stop, hop): yield start, audio[start : start + window]
RECURSIVE RangeWindows(_, _, _, _, _)
RangeWindows(audio, start, stop, window_samples, hop_samples) ==
    IF start >= stop THEN <<>>
    ELSE <<[start_sample |-> start,
            samples |-> PySlice(audio, start, start + window_samples)]>>
         \o RangeWindows(audio, start + hop_samples, stop, window_samples, hop_samples)

iter_windows(audio, window_samples, hop_samples) ==
    IF Len(audio) = 0 THEN <<>>
    ELSE IF Len(audio) < window_samples
         THEN <<[start_sample |-> 0,
                 samples |-> audio \o Zeros(window_samples - Len(audio))]>>
    ELSE RangeWindows(audio, 0, Len(audio) - window_samples + 1,
                      window_samples, hop_samples)

-----------------------------------------------------------------------------
(* windowing.py: StreamWindowProcessor *)

\* __init__ after the two ValueError checks have passed
NewProcessor(window_samples, hop_samples) ==
    [window_samples |-> window_samples,
     hop_samples |-> hop_samples,
     buffer |-> <<>>,
     buffer_start |-> 0,
     total_samples |-> 0,
     next_window_start |-> 0]

\* The while loop of push: returns the processor and the windows collected
RECURSIVE PushLoop(_, _)
PushLoop(p, windows) ==
    IF p.next_window_start + p.window_samples <= p.total_samples
    THEN LET off0 == p.next_window_start - p.buffer_start
             p1 == IF off0 < 0
                   THEN [p EXCEPT !.next_window_start = p.buffer_start]
                   ELSE p
             start_offset == IF off0 < 0 THEN 0 ELSE off0
             end_offset == start_offset + p.window_samples
         IN  IF end_offset > Len(p1.buffer)
             THEN [p |-> p1, windows |-> windows]
             ELSE PushLoop(
                    [p1 EXCEPT !.next_window_start = @ + p.hop_samples],
                    Append(windows,
                           [start_sample |-> p1.next_window_start,
                            samples |-> PySlice(p1.buffer, start_offset, end_offset)]))
    ELSE [p |-> p, windows |-> windows]

\* The trim at the end of push
Trim(p) ==
    LET trim == Max2(0, p.next_window_start - p.buffer_start)
    IN  IF trim > 0
        THEN [p EXCEPT !.buffer = PySlice(p.buffer, trim, Len(p.buffer)),
                       !.buffer_start = @ + trim]
        ELSE p

push_oneWindow(p, samples) ==
    IF Len(samples) = 0 THEN [p |-> p, windows |-> <<>>]
    ELSE LET p1 == [p EXCEPT !.buffer = @ \o samples,
                             !.total_samples = @ + Len(samples)]
             r == PushLoop(p1, <<>>)
         IN  IF Len(r.windows) <= 1 THEN [p |-> Trim(r.p), windows |-> r.windows]
             ELSE [p |-> Trim([p1 EXCEPT !.next_window_start = @ + p.hop_samples]),
                   windows |-> <<r.windows[1]>>]

\* push: the processor after the call and the list it returns
push(p, samples) ==
    IF Len(samples) = 0 THEN [p |-> p, windows |-> <<>>]
    ELSE LET p1 == [p EXCEPT !.buffer = @ \o samples,
                             !.total_samples = @ + Len(samples)]
             r == PushLoop(p1, <<>>)
         IN  [p |-> Trim(r.p), windows |-> r.windows]

\* The segmenter's variables when the specification at hand does not use it
IdleWin ==
    /\ processor = NewProcessor(1, 1)
    /\ signal = <<>>
    /\ emitted = <<>>
    /\ lastPush = [size |-> 0, windows |-> <<>>]

-----------------------------------------------------------------------------
(* alerts.py: AlertTracker *)

\* __init__
NewAlertTracker(threshold, hold_sec, step_sec) ==
    [threshold |-> threshold,
     hold_sec |-> hold_sec,
     step_sec |-> step_sec,
     above_sec |-> 0,
     active |-> FALSE,
     active_start |-> 0,
     segments |-> <<>>]

ActiveStart_tstart(t_start, t_end, above_sec) == t_start

\* self._active_start = max(float(t_start), float(t_end) - self._above_sec)
ActiveStart(t_start, t_end, above_sec) == Max2(t_start, t_end - above_sec)

CloseIfActive_swapped(a, t_end) ==
    IF a.active
    THEN [a EXCEPT !.segments =
            Append(@, [start_sec |-> t_end, end_sec |-> a.active_start])]
    ELSE a

\* if self._active: self._segments.append(AlertSegment(self._active_start, t_end))
CloseIfActive(a, t_end) ==
    IF a.active
    THEN [a EXCEPT !.segments =
            Append(@, [start_sec |-> a.active_start, end_sec |-> t_end])]
    ELSE a

ResetRun_keepAbove(a) == [a EXCEPT !.active = FALSE]

\* self._active = False; self._above_sec = 0.0
ResetRun(a) == [a EXCEPT !.active = FALSE, !.above_sec = 0]

\* update: the tracker after the call; the call returns its active field
update(a, t_start, t_end, p, is_speech) ==
    IF ~is_speech THEN ResetRun(CloseIfActive(a, t_end))
    ELSE IF FGe(p, a.threshold)
    THEN LET above == a.above_sec + a.step_sec
         IN  IF ~a.active /\ above >= a.hold_sec
             THEN [a EXCEPT !.above_sec = above,
                            !.active = TRUE,
                            !.active_start = ActiveStart(t_start, t_end, above)]
             ELSE [a EXCEPT !.above_sec = above]
    ELSE ResetRun(CloseIfActive(a, t_end))

finalize_keepsActive(a, t_end) == CloseIfActive(a, t_end)

\* finalize
finalize(a, t_end) == ResetRun(CloseIfActive(a, t_end))

\* No list has been asked of the tracker
NoHeld == [taken |-> FALSE, alias |-> FALSE, cleared |-> FALSE, items |-> <<>>]

segments_alias(a) == [NoHeld EXCEPT !.taken = TRUE, !.alias = TRUE, !.items = a.segments]

\* The segments property: list(self._segments), a new list with the same
\* (frozen) AlertSegment items; alias tells whether the list returned is the
\* tracker's own
segments(a) == [NoHeld EXCEPT !.taken = TRUE, !.items = a.segments]

\* The caller clears the list it holds: the tracker's list is cleared with it
\* iff they are one list
caller_clear(h, a) ==
    [h |-> [h EXCEPT !.items = <<>>, !.cleared = TRUE],
     a |-> IF h.alias THEN [a EXCEPT !.segments = <<>>] ELSE a]

\* No finalize call yet
NoFinalize == [calls |-> 0, appended |-> 0, t_end |-> 0, before |-> <<>>]

\* The record of one more finalize call, which took tracker a to a2
FinalizeCalled(last, a, a2, t_end) ==
    [calls |-> last.calls + 1,
     appended |-> last.appended + (Len(a2.segments) - Len(a.segments)),
     t_end |-> t_end,
     before |-> a]

\* The tracker's variables when the specification at hand does not use it
IdleAlert ==
    /\ alert = NewAlertTracker(AlertThreshold, 0, 1)
    /\ clip = [window_sec |-> 1, fed |-> 0, pc |-> "idle"]
    /\ runLen = 0
    /\ maxRun = 0
    /\ interrupted = 0
    /\ actLog = <<>>
    /\ lastFinalize = NoFinalize
    /\ held = NoHeld

-----------------------------------------------------------------------------
(* Python floats: comparisons with NaN are false, arithmetic on NaN is NaN *)

FGt(a, b) == a # NaN /\ b # NaN /\ a > b

\* max(x, y) and min(x, y) of two arguments: the first unless the second
\* compares greater (less)
PyMax(x, y) == IF FGt(y, x) THEN y ELSE x
PyMin(x, y) == IF FGt(x, y) THEN y ELSE x

\* _clamp: float(min(max(x, lo), hi))
clamp(x, lo, hi) == PyMin(PyMax(x, lo), hi)

\* np.clip(x, lo, hi): NaN stays NaN
np_clip(x, lo, hi) == IF x = NaN THEN NaN ELSE Min2(Max2(x, lo), hi)

\* abs(p - 0.5) * 2.0, in percent
AbsConfidence(p) == IF p = NaN THEN NaN ELSE 2 * (IF p >= 50 THEN p - 50 ELSE 50 - p)

-----------------------------------------------------------------------------
(* engine.py: VoiceGuardEngine.__init__ *)

None == "None"
Loaded == "loaded"

-----------------------------------------------------------------------------
(* dsp/enhance.py: AudioEnhancer with its NoiseReducer.  Of the arrays only
   their presence is kept: sos_state (the bandpass filter's state), noise_mag
   (the noise profile, with its shape in noise_shape, 0 for None) and
   fft_window (the cached Hann window).  exists is FALSE for
   self._enhancer = None.  An audio array is given by its size. *)

\* EnhanceConfig()
EnhanceDefaults == [enabled |-> FALSE, bandpass |-> TRUE, noise_reduction |-> TRUE]

\* AudioEnhancer(self._enhance_cfg, ...) if enabled, else None
NewEnhancer(enhance) ==
    [exists |-> enhance.enabled,
     bandpass |-> enhance.bandpass,
     noise_reduction |-> enhance.noise_reduction,
     sos_state |-> None,
     noise_mag |-> None,
     noise_shape |-> 0,
     fft_window |-> None]

\* AudioEnhancer.reset with NoiseReducer.reset
enhancer_reset(en) ==
    [en EXCEPT !.sos_state = None, !.noise_mag = None, !.noise_shape = 0,
               !.fft_window = None]

\* _apply_bandpass: the filter state is created on first use and carried on
apply_bandpass(en) ==
    IF en.bandpass THEN [en EXCEPT !.sos_state = "set"] ELSE en

\* The shape of np.fft.rfft of size samples
fft_shape(size) == size \div 2 + 1

\* NoiseReducer.update_profile: a profile of another shape is replaced
update_profile(en, size) ==
    IF size = 0 THEN en
    ELSE [en EXCEPT !.noise_mag = "set", !.noise_shape = fft_shape(size),
                    !.fft_window = "set"]

\* AudioEnhancer.update_noise
update_noise(en, size) ==
    IF ~en.noise_reduction THEN en
    ELSE update_profile(apply_bandpass(en), size)

reduce_subtracts_anyShape(en, size) == size # 0 /\ en.noise_mag # None

\* NoiseReducer.reduce subtracts the profile (it returns audio as given if
\* there is no profile or its shape is not that of the spectrum)
reduce_subtracts(en, size) ==
    /\ size # 0
    /\ en.noise_mag # None
    /\ en.noise_shape = fft_shape(size)

\* NoiseReducer.reduce: the Hann window is cached before the shapes are compared
reduce(en, size) ==
    IF size = 0 \/ en.noise_mag = None THEN en
    ELSE [en EXCEPT !.fft_window = "set"]

\* AudioEnhancer.process
process(en, size) ==
    LET en1 == apply_bandpass(en)
    IN  IF en.noise_reduction THEN reduce(en1, size) ELSE en1

\* AudioEnhancer.process returns audio with the noise profile subtracted
process_subtracts(en, size) ==
    en.noise_reduction /\ reduce_subtracts(apply_bandpass(en), size)

-----------------------------------------------------------------------------
(* engine.py: VoiceGuardEngine.__init__, continued *)

KnownBackends == {"auto", "heuristic", "onnx", "hf"}

\* The fields as set before the backends are tried
EngineFields(cfg) ==
    [requested_backend |-> cfg.backend,
     backend_in_use |-> "heuristic",
     backend_note |-> "",
     ema |-> NaN,
     has_ema |-> FALSE,
     enhancer |-> NewEnhancer(cfg.enhance),
     onnx |-> None,
     hf |-> None,
     onnx_raised |-> FALSE,
     hf_raised |-> FALSE,
     pc |-> "init"]

TryOnnx_setsBackendFirst(e, ev) ==
    IF e.requested_backend \in {"onnx", "auto"}
    THEN IF ev.model_exists
         THEN IF ev.onnx_loads
              THEN [e EXCEPT !.onnx = Loaded, !.backend_in_use = "onnx"]
              ELSE [e EXCEPT !.onnx = None,
                             !.backend_in_use = "onnx",
                             !.backend_note = "ONNX backend unavailable",
                             !.onnx_raised = TRUE]
         ELSE IF e.requested_backend = "onnx"
              THEN [e EXCEPT !.backend_note = "ONNX model not found"]
              ELSE e
    ELSE e

\* 1) Try ONNX
TryOnnx(e, ev) ==
    IF e.requested_backend \in {"onnx", "auto"}
    THEN IF ev.model_exists
         THEN IF ev.onnx_loads
              THEN [e EXCEPT !.onnx = Loaded, !.backend_in_use = "onnx"]
              ELSE [e EXCEPT !.onnx = None,
                             !.backend_in_use = "heuristic",
                             !.backend_note = "ONNX backend unavailable",
                             !.onnx_raised = TRUE]
         ELSE IF e.requested_backend = "onnx"
              THEN [e EXCEPT !.backend_note = "ONNX model not found"]
              ELSE e
    ELSE e

AllowHf_explicitOnly(requested, local_exists) == requested = "hf"

\* allow_hf
AllowHf(requested, local_exists) ==
    \/ requested = "hf"
    \/ requested = "auto" /\ local_exists

\* HfAudioClassifier(...) inside the try: it is built from the local snapshot
\* if there is one, else from hf_repo_id, which must not be empty
HfBuilds(cfg, ev) ==
    /\ ev.hf_local_exists \/ cfg.has_hf_repo_id
    /\ ev.hf_loads

\* 2) Try HF
TryHf(e, cfg, ev) ==
    IF e.backend_in_use # "onnx" /\ AllowHf(e.requested_backend, ev.hf_local_exists)
    THEN IF HfBuilds(cfg, ev)
         THEN [e EXCEPT !.hf = Loaded, !.backend_in_use = "hf"]
         ELSE [e EXCEPT !.hf = None,
                        !.backend_in_use = "heuristic",
                        !.backend_note = "HF backend unavailable",
                        !.hf_raised = TRUE]
    ELSE e

\* The note of the heuristic mode
HeuristicNote(e) ==
    IF e.backend_in_use = "heuristic"
    THEN IF e.requested_backend \notin KnownBackends
         THEN [e EXCEPT !.backend_note = "Unknown backend, using heuristic"]
         ELSE IF e.backend_note # "" THEN e
         ELSE IF e.requested_backend = "auto"
         THEN [e EXCEPT !.backend_note = "ML model not connected"]
         ELSE IF e.requested_backend = "heuristic"
         THEN [e EXCEPT !.backend_note = "Demo mode (heuristic)"]
         ELSE e
    ELSE e

\* __init__: the engine constructed.  Every exception of a backend's
\* construction is caught, so the constructor returns (pc = "ready").
EngineInit(cfg, ev) ==
    [HeuristicNote(TryHf(TryOnnx(EngineFields(cfg), ev), cfg, ev)) EXCEPT !.pc = "ready"]

reset_state_emaOnly(e) == [e EXCEPT !.ema = NaN, !.has_ema = FALSE]

\* reset_state
reset_state(e) ==
    [e EXCEPT !.ema = NaN,
              !.has_ema = FALSE,
              !.enhancer = IF @.exists THEN enhancer_reset(@) ELSE @]

-----------------------------------------------------------------------------
(* engine.py: VoiceGuardEngine.infer_window.  A window is given by its
   rms_db, the score the model behind the backend computes for it (raw) and,
   for the HF classifier, the largest class probability (top). *)

\* OnnxModel.predict: float(np.clip(p, 0.0, 1.0))
OnnxPredict(w) ==
    LET p == np_clip(w.raw, 0, 100)
    IN  [p_fake |-> p, model_confidence |-> AbsConfidence(p)]

\* HfAudioClassifier.predict
HfPredict(w) ==
    [p_fake |-> np_clip(w.raw, 0, 100), model_confidence |-> np_clip(w.top, 0, 100)]

\* heuristic_p_fake: a sigmoid, clamped
HeuristicPredict(w) ==
    LET p == clamp(w.raw, 0, 100)
    IN  [p_fake |-> p, model_confidence |-> AbsConfidence(p)]

\* The smoother
EmaStep(e, p_fake) ==
    IF ~e.has_ema THEN p_fake
    ELSE IF p_fake = NaN \/ e.ema = NaN THEN NaN
    ELSE (EmaAlpha * p_fake + (100 - EmaAlpha) * e.ema) \div 100

\* quality = _clamp((rms_db - threshold) / 30.0, 0.0, 1.0), in percent
Quality(level) == clamp(((level - RmsDbThreshold) * 100) \div 30, 0, 100)

\* confidence = _clamp(0.15 + 0.85 * (0.60 * quality + 0.40 * conf), 0.0, 1.0)
Confidence(quality, model_confidence) ==
    LET conf == clamp(model_confidence, 0, 100)
    IN  clamp(IF conf = NaN THEN NaN
              ELSE 15 + (85 * (60 * quality + 40 * conf)) \div 10000,
              0, 100)

NoResult ==
    [kind |-> "none", p_fake |-> NaN, p_fake_smooth |-> NaN,
     confidence |-> 0, is_speech |-> FALSE]

\* The calls one infer_window makes to the enhancer and to the backend in use
NoCalls == [update_noise |-> 0, process |-> 0, backend |-> 0, subtracted |-> FALSE]

infer_silent_dropsEma(e, w) ==
    [e |-> [e EXCEPT !.ema = NaN, !.has_ema = FALSE,
                     !.enhancer = IF @.exists
                                  THEN update_noise(@, w.size) ELSE @],
     r |-> [kind |-> "ok", p_fake |-> NaN, p_fake_smooth |-> NaN,
            confidence |-> 0, is_speech |-> FALSE],
     size |-> w.size, calls |-> [NoCalls EXCEPT !.update_noise = IF e.enhancer.exists THEN 1 ELSE 0]]

\* infer_window on a window the gate refuses: the noise profile is updated
\* and the silent InferenceResult returned
infer_silent(e, w) ==
    [e |-> [e EXCEPT !.enhancer = IF @.exists
                                  THEN update_noise(@, w.size) ELSE @],
     r |-> [kind |-> "ok", p_fake |-> NaN, p_fake_smooth |-> NaN,
            confidence |-> 0, is_speech |-> FALSE],
     size |-> w.size, calls |-> [NoCalls EXCEPT !.update_noise = IF e.enhancer.exists THEN 1 ELSE 0]]

\* infer_window on a speech window: enhancement, the backend in use, the
\* smoother, the confidence (kind "raised": the RuntimeError of a selected
\* backend that is not initialized)
infer_speech(e, w) ==
    LET e_proc == [e EXCEPT !.enhancer = IF @.exists
                                         THEN process(@, w.size) ELSE @]
        processed == [NoCalls EXCEPT
                         !.process = IF e.enhancer.exists THEN 1 ELSE 0,
                         !.subtracted = /\ e.enhancer.exists
                                        /\ process_subtracts(e.enhancer, w.size)]
    IN  IF \/ e.backend_in_use = "onnx" /\ e.onnx = None
           \/ e.backend_in_use = "hf" /\ e.hf = None
        THEN [e |-> e_proc, r |-> [NoResult EXCEPT !.kind = "raised"],
              size |-> w.size, calls |-> processed]
        ELSE LET pred == IF e.backend_in_use = "onnx" THEN OnnxPredict(w)
                         ELSE IF e.backend_in_use = "hf" THEN HfPredict(w)
                         ELSE HeuristicPredict(w)
                 ema2 == EmaStep(e, pred.p_fake)
             IN  [e |-> [e_proc EXCEPT !.ema = ema2, !.has_ema = TRUE],
                  r |-> [kind |-> "ok",
                         p_fake |-> clamp(pred.p_fake, 0, 100),
                         p_fake_smooth |-> clamp(ema2, 0, 100),
                         confidence |-> Confidence(Quality(w.rms_db),
                                                   pred.model_confidence),
                         is_speech |-> TRUE],
                  size |-> w.size, calls |-> [processed EXCEPT !.backend = 1]]

\* infer_window: the engine after the call, the InferenceResult returned and
\* the calls made
infer_window(e, w) ==
    IF ~FGt(w.rms_db, RmsDbThreshold) THEN infer_silent(e, w)
    ELSE infer_speech(e, w)

\* What the session has seen: the calls of the last infer_window, the EMA the
\* last speech window left, the silent windows since it and those that lay
\* before it
NoHistory ==
    [calls |-> NoCalls, size |-> 0, has_speech |-> FALSE, speech_ema |-> NaN,
     silent_run |-> 0, gap |-> 0]

\* The history after one more infer_window
Heard(h, out) ==
    IF out.r.kind = "ok" /\ out.r.is_speech
    THEN [calls |-> out.calls, size |-> out.size,
          has_speech |-> TRUE, speech_ema |-> out.e.ema,
          silent_run |-> 0, gap |-> h.silent_run]
    ELSE IF out.r.kind = "ok"
    THEN [h EXCEPT !.calls = out.calls, !.size = out.size, !.silent_run = @ + 1]
    ELSE [h EXCEPT !.calls = out.calls, !.size = out.size]

\* reset_state has not been called
NoReset ==
    [resets |-> 0, found |-> [ema |-> FALSE, sos_state |-> FALSE, noise_mag |-> FALSE],
     inferred_since |-> 0, speech_since |-> 0, heard |-> NoHistory]

\* The session state an engine holds: a running average, a filter state, a
\* noise profile
SessionState(e) ==
    [ema |-> e.has_ema,
     sos_state |-> e.enhancer.sos_state # None,
     noise_mag |-> e.enhancer.noise_mag # None]

\* The engine's variables when the specification at hand does not use it
IdleEngine ==
    /\ config = [backend |-> "heuristic", has_hf_repo_id |-> FALSE,
                 enhance |-> EnhanceDefaults]
    /\ env = [model_exists |-> FALSE, hf_local_exists |-> FALSE,
              onnx_loads |-> FALSE, hf_loads |-> FALSE]
    /\ engine = EngineFields(config)
    /\ result = NoResult
    /\ inferred = 0
    /\ resetLog = NoReset

-----------------------------------------------------------------------------
(* analysis.py: analyze_audio.  The clip is size samples at the target rate;
   what its windows sound like is given by a pattern of window contents,
   window number k (start_sample = k * hop) having the content
   pattern[k mod Len(pattern)].  The scores of the summary are kept in
   twentieths of a percent, the unit in which the 95th percentile of a list
   of whole percents is exact. *)

\* What the engine is given for the window that starts at start_sample
WindowContent(pattern, start_sample, hop_samples) ==
    pattern[((start_sample \div hop_samples) % Len(pattern)) + 1]

\* hold_sec = min(hold_sec, float(config.hop_sec)) for a file
AnalyzeHold(source_kind, alert_hold_sec, hop_sec) ==
    IF source_kind = "file" THEN Min2(alert_hold_sec, hop_sec) ELSE alert_hold_sec

\* The locals of analyze_audio when the loop over the windows starts
AnalyzeSetup(in) ==
    [source_kind |-> in.source_kind,
     has_progress |-> in.has_progress,
     size |-> in.size,
     pattern |-> in.pattern,
     window_samples |-> in.window_samples,
     hop_samples |-> in.hop_samples,
     total |-> estimate_num_windows(in.size, in.window_samples, in.hop_samples),
     iter |-> iter_windows(ChunkAfter(0, in.size), in.window_samples,
                           in.hop_samples),
     engine |-> reset_state(EngineInit(in.cfg, in.ev)),
     alert |-> NewAlertTracker(AlertThreshold,
                               AnalyzeHold(in.source_kind, in.alert_hold_sec,
                                           in.hop_samples),
                               in.hop_samples),
     use_raw_for_alert |-> in.source_kind = "file",
     windows |-> <<>>,
     processed |-> 0,
     calls |-> <<>>,
     p_fake_p95 |-> 0,
     p_clip |-> 0,
     p_fake_overall |-> 0,
     clip_res |-> NoResult,
     pc |-> "loop"]


\* The alert.update call of the loop body
analyze_alert_update(a, use_raw_for_alert, t_start, t_end, r) ==
    IF r.is_speech
    THEN update(a, t_start, t_end,
                IF use_raw_for_alert THEN r.p_fake ELSE r.p_fake_smooth, TRUE)
    ELSE update(a, t_start, t_end, 0, FALSE)

\* The progress calls so far, after this iteration's
ProgressCalls(st, processed) ==
    IF st.has_progress /\ (processed = st.total \/ processed % 10 = 0)
    THEN Append(st.calls, <<processed, st.total>>)
    ELSE st.calls

\* One iteration of the for loop; an exception of infer_window leaves
\* analyze_audio (pc = "raised")
analyze_window(st, win) ==
    LET t_start == win.start_sample
        t_end == win.start_sample + st.window_samples
        out == infer_window(st.engine,
                            WindowContent(st.pattern, win.start_sample,
                                          st.hop_samples))
        processed == st.processed + 1
    IN  IF out.r.kind = "raised" THEN [st EXCEPT !.pc = "raised"]
        ELSE [st EXCEPT
                !.engine = out.e,
                !.windows = Append(@, [t_start |-> t_start, t_end |-> t_end,
                                       result |-> out.r]),
                !.alert = analyze_alert_update(@, st.use_raw_for_alert,
                                               t_start, t_end, out.r),
                !.processed = processed,
                !.calls = ProgressCalls(st, processed)]

AnalyzeFinalize_oneHopLater(st) ==
    IF Len(st.windows) > 0
    THEN finalize(st.alert, st.windows[Len(st.windows)].t_end + st.hop_samples)
    ELSE st.alert

\* if windows: alert.finalize(t_end=windows[-1].t_end)
AnalyzeFinalize(st) ==
    IF Len(st.windows) > 0
    THEN finalize(st.alert, st.windows[Len(st.windows)].t_end)
    ELSE st.alert

\* p_vals, in percent
PVals(windows) ==
    LET speech == SelectSeq(windows,
                            LAMBDA w : w.result.is_speech /\ w.result.p_fake # NaN)
    IN  [i \in 1..Len(speech) |-> speech[i].result.p_fake]

\* np.quantile(p_vals, 0.95), linear interpolation between the two order
\* statistics around position 0.95 * (n - 1); in twentieths of a percent
Quantile95(p_vals) ==
    LET s == SortSeq(p_vals, LAMBDA x, y : x < y)
        h == 19 * (Len(s) - 1)
        lo == h \div 20
        frac == h % 20
    IN  IF frac = 0 THEN 20 * s[lo + 1]
        ELSE 20 * s[lo + 1] + frac * (s[lo + 2] - s[lo + 1])

\* first_speech_start
FirstSpeechStart(windows) ==
    LET speech == SelectSeq(windows, LAMBDA w : w.result.is_speech)
    IN  IF Len(speech) > 0 THEN speech[1].t_start ELSE 0

p_overall_clipOnly(p_p95, p_clip) == p_clip

\* p_overall = float(max(float(p_p95), float(p_clip)))
p_overall(p_p95, p_clip) == PyMax(p_p95, p_clip)

\* The extra whole-clip inference: the engine after it, what infer_window
\* answered (kind "none": it was not called; kind "raised": the call raised
\* and the except clause caught it) and p_clip
WholeClip(st, p_vals, p_p95, clip_audio, fault) ==
    LET start == FirstSpeechStart(st.windows)
        clip_len == Min2(st.size - start, 12)
    IN  IF st.engine.backend_in_use = "hf" /\ Len(p_vals) > 0 /\ clip_len > 0
        THEN IF fault
             THEN [engine |-> st.engine,
                   clip_res |-> [NoResult EXCEPT !.kind = "raised"],
                   p_clip |-> p_p95]
             ELSE LET out == infer_window(st.engine, clip_audio)
                  IN  [engine |-> out.e,
                       clip_res |-> out.r,
                       p_clip |-> IF /\ out.r.kind = "ok"
                                     /\ out.r.is_speech
                                     /\ out.r.p_fake # NaN
                                  THEN 20 * out.r.p_fake
                                  ELSE p_p95]
        ELSE [engine |-> st.engine, clip_res |-> NoResult, p_clip |-> p_p95]

\* analyze_audio from the end of the loop to its return
analyze_finish(st, clip_audio, fault) ==
    LET p_vals == PVals(st.windows)
        p_p95 == IF Len(p_vals) > 0 THEN Quantile95(p_vals) ELSE 0
        wc == WholeClip(st, p_vals, p_p95, clip_audio, fault)
    IN  [st EXCEPT !.alert = AnalyzeFinalize(st),
                   !.engine = wc.engine,
                   !.clip_res = wc.clip_res,
                   !.p_fake_p95 = p_p95,
                   !.p_clip = wc.p_clip,
                   !.p_fake_overall = p_overall(p_p95, wc.p_clip),
                   !.pc = "done"]

\* The orchestrator's variable when the specification at hand does not use it
IdleAnalyze == an = [pc |-> "idle"]

-----------------------------------------------------------------------------
(* ui/live_tab.py: _LiveAnalyzerThread.run, with the capture object it reads
   from.  pc is the thread's position: "start" (capture.start), "check" (the
   while condition), "get" (inside queue.get), "windows" (the for loop over
   the windows of a chunk), "stop" (the finally clause), "done". *)

\* The capture object after __init__ (produced: the samples the device has
\* delivered so far, a history field)
NewCapture == [queue |-> <<>>, running |-> FALSE, produced |-> 0]

put_nowait_dropsOldest(c, chunk) ==
    IF ~c.running THEN c
    ELSE IF Len(c.queue) >= QueueMaxsize
    THEN [c EXCEPT !.queue = Append(Tail(@), chunk)]
    ELSE [c EXCEPT !.queue = Append(@, chunk)]

\* callback: put_nowait, the chunk is dropped when the queue is full
put_nowait(c, chunk) ==
    IF ~c.running THEN c
    ELSE IF Len(c.queue) >= QueueMaxsize THEN c
    ELSE [c EXCEPT !.queue = Append(@, chunk)]

queue_get_blocking(q) ==
    IF Len(q) > 0 THEN [kind |-> "chunk", chunk |-> Head(q), queue |-> Tail(q)]
    ELSE [kind |-> "waiting", chunk |-> <<>>, queue |-> q]

\* capture.queue.get(timeout=0.2): the oldest chunk, or queue.Empty once the
\* queue has stayed empty for the timeout
queue_get(q) ==
    IF Len(q) > 0 THEN [kind |-> "chunk", chunk |-> Head(q), queue |-> Tail(q)]
    ELSE [kind |-> "Empty", chunk |-> <<>>, queue |-> q]

\* The thread object after __init__ and start(), with the locals run sets up
\* before its loop
NewLiveThread(in) ==
    [pc |-> "start",
     interruption_requested |-> FALSE,
     pattern |-> in.pattern,
     processor |-> NewProcessor(in.window_samples, in.hop_samples),
     engine |-> reset_state(EngineInit(in.cfg, in.ev)),
     alert |-> NewAlertTracker(AlertThreshold, in.alert_hold_sec, in.hop_samples),
     pending |-> <<>>,
     points |-> <<>>,
     error |-> FALSE,
     taken |-> 0,
     taken_since |-> 0,
     activations |-> 0]

live_alert_update_raw(a, t_start, t_end, r) ==
    IF r.is_speech
    THEN update(a, t_start, t_end, r.p_fake, TRUE)
    ELSE update(a, t_start, t_end, 0, FALSE)

\* The alert.update call of the loop body
live_alert_update(a, t_start, t_end, r) ==
    IF r.is_speech
    THEN update(a, t_start, t_end, r.p_fake_smooth, TRUE)
    ELSE update(a, t_start, t_end, 0, FALSE)

\* while not self.isInterruptionRequested()
while_condition(t) == ~t.interruption_requested

\* result = engine.infer_window(w.samples, orig_sr=target_sr) for the first
\* pending window
LiveInfer(t) ==
    infer_window(t.engine,
                 WindowContent(t.pattern, Head(t.pending).start_sample,
                               t.processor.hop_samples))

\* The body of the for loop for the first pending window, out being what
\* infer_window did: the tracker's update and the point signal; an exception
\* (fault) leaves the loops for the except clause
live_window(t, out, fault) ==
    LET w == Head(t.pending)
        t_start == w.start_sample
        t_end == w.start_sample + t.processor.window_samples
        a2 == live_alert_update(t.alert, t_start, t_end, out.r)
    IN  IF fault \/ out.r.kind = "raised"
        THEN [t EXCEPT !.error = TRUE, !.pending = <<>>, !.pc = "stop"]
        ELSE [t EXCEPT
                !.engine = out.e,
                !.alert = a2,
                !.activations = IF ~t.alert.active /\ a2.active THEN @ + 1 ELSE @,
                !.points = Append(@, [t_start |-> t_start, t_end |-> t_end,
                                      alert |-> a2.active,
                                      segments |-> a2.segments]),
                !.pending = Tail(t.pending),
                !.pc = IF Len(t.pending) > 1 THEN "windows" ELSE "check"]

\* The trackers of analyze_audio, for a file and for a recording
RefTrackers(in) ==
    [kind \in {"file", "mic"} |->
        NewAlertTracker(AlertThreshold,
                        AnalyzeHold(kind, in.alert_hold_sec, in.hop_samples),
                        in.hop_samples)]

\* The live variables when the specification at hand does not use them
IdleLive ==
    /\ live = [pc |-> "idle"]
    /\ capture = NewCapture
    /\ ref = <<>>

-----------------------------------------------------------------------------
(* vad.py: the energy gate.  A window is a sequence of samples, each 0 or
   +-1 (full scale); levels are in hundredths of a dB. *)

\* 10 * log10(m / n) in hundredths of a dB, for the ratios a window of at
\* most four samples can have
TenLog10(m, n) ==
    CASE m = n     -> 0
      [] 4 * m = 3 * n -> -125
      [] 3 * m = 2 * n -> -176
      [] 2 * m = n -> -301
      [] 3 * m = n -> -477
      [] 4 * m = n -> -602

\* rms_db: -inf for an empty array, else 20 * log10(rms + eps); with m of the
\* n samples at full scale rms = sqrt(m / n), and eps = 1e-12 is below a
\* hundredth of a dB unless rms = 0
rms_db(audio) ==
    IF Len(audio) = 0 THEN NegInf
    ELSE LET m == Cardinality({i \in 1..Len(audio) : audio[i] # 0})
         IN  IF m = 0 THEN EpsDb ELSE TenLog10(m, Len(audio))

is_speech_window_ge(audio, threshold_db) == FGe(rms_db(audio), threshold_db)

\* is_speech_window: rms_db(audio) > float(threshold_db); the gate of
\* infer_window is the same comparison on the same rms_db
is_speech_window(audio, threshold_db) == FGt(rms_db(audio), threshold_db)

-----------------------------------------------------------------------------
(* windowing.py: the entry points called with any duration or any number of
   samples.  A duration times the sample rate is given in half samples. *)

sec_to_samples_halfUp(half) == (half + 1) \div 2

\* _sec_to_samples: int(round(sec * sample_rate)); round goes to the nearest
\* integer and, from a half, to the even one
sec_to_samples(half) ==
    LET lo == half \div 2
    IN  IF half % 2 = 0 \/ lo % 2 = 0 THEN lo ELSE lo + 1

\* What a call did: it returned (a segmenter's parameters, or a number of
\* windows), or it raised ValueError
NoOutcome == [kind |-> "none", window_samples |-> 0, hop_samples |-> 0, count |-> 0]

Returned(window_samples, hop_samples, count) ==
    [kind |-> "returned", window_samples |-> window_samples,
     hop_samples |-> hop_samples, count |-> count]

ValueError == [NoOutcome EXCEPT !.kind = "ValueError"]

\* window_params
window_params(window_half, hop_half) ==
    LET window_samples == sec_to_samples(window_half)
        hop_samples == sec_to_samples(hop_half)
    IN  IF window_samples <= 0 THEN ValueError
        ELSE IF hop_samples <= 0 THEN ValueError
        ELSE Returned(window_samples, hop_samples, 0)

\* StreamWindowProcessor.__init__: the processor exists iff it returns
StreamWindowProcessor(window_half, hop_half) ==
    LET p == NewProcessor(sec_to_samples(window_half), sec_to_samples(hop_half))
    IN  IF p.window_samples <= 0 THEN ValueError
        ELSE IF p.hop_samples <= 0 THEN ValueError
        ELSE Returned(p.window_samples, p.hop_samples, 0)

\* len(range(0, stop, step)) for a step other than 0
range_len(stop, step) ==
    IF step > 0
    THEN IF stop <= 0 THEN 0 ELSE (stop + step - 1) \div step
    ELSE IF stop >= 0 THEN 0 ELSE ((-stop) + (-step) - 1) \div (-step)

\* list(iter_windows(audio, ...)) on a clip of num_samples samples: nothing
\* is validated, range raises ValueError for a step of 0, and a slice with
\* a window_samples <= 0 is a (possibly empty) array
iter_windows_call(num_samples, window_samples, hop_samples) ==
    IF window_samples > 0 /\ hop_samples > 0
    THEN Returned(window_samples, hop_samples,
                  Len(iter_windows(ChunkAfter(0, num_samples), window_samples,
                                   hop_samples)))
    ELSE IF num_samples = 0 THEN Returned(window_samples, hop_samples, 0)
    ELSE IF num_samples < window_samples
         THEN Returned(window_samples, hop_samples, 1)
    ELSE IF hop_samples = 0 THEN ValueError
    ELSE Returned(window_samples, hop_samples,
                  range_len(num_samples - window_samples + 1, hop_samples))

\* estimate_num_windows called directly
estimate_num_windows_call(num_samples, window_samples, hop_samples) ==
    Returned(window_samples, hop_samples,
             estimate_num_windows(num_samples, window_samples, hop_samples))

\* The single-call variables when the specification at hand does not use them
IdleShell ==
    /\ hf = [pc |-> "idle"]
    /\ mic = [pc |-> "idle"]
    /\ tab = [pc |-> "idle"]

IdleEntry ==
    /\ vad = [pc |-> "idle"]
    /\ entry = [pc |-> "idle"]
    /\ IdleShell

IdleDrivers == IdleAnalyze /\ IdleLive /\ IdleEntry


-----------------------------------------------------------------------------
(* The engine specification: an engine is constructed for every requested
   backend and every answer of the file system and of the model libraries,
   and then infers windows. *)

RequestedBackends == KnownBackends \cup {"tflite"}

\* rms_db of a window: silent, exactly at the threshold, above it
RmsLevels == {NegInf, RmsDbThreshold, -30, 0}

\* What the model computes for a window: a probability, a value outside
\* [0, 1], or NaN
RawScores == {NaN, -50, 20, 90, 150}

\* The windows a backend may be given: the heuristic's sigmoid is a number in
\* [0, 1]; a softmax over NaN logits is NaN in every class
Windows(backend) ==
    {w \in [rms_db : RmsLevels, raw : RawScores, top : {NaN, 60, 100},
             size : {0, MaxSessionWindow}] :
        /\ (w.size = 0) <=> (w.rms_db = NegInf)
        /\ (w.top = NaN) <=> (w.raw = NaN)
        /\ (backend = "heuristic") => (w.raw # NaN /\ w.raw >= 0 /\ w.raw <= 100)
        /\ (backend # "hf") => (w.top \in {NaN, 100})}

InitEngine ==
    /\ IdleWin
    /\ IdleAlert
    /\ IdleDrivers
    /\ config \in [backend : RequestedBackends, has_hf_repo_id : BOOLEAN,
                    enhance : {EnhanceDefaults}]
    /\ env \in [model_exists : BOOLEAN, hf_local_exists : BOOLEAN,
                onnx_loads : BOOLEAN, hf_loads : BOOLEAN]
    /\ engine = EngineFields(config)
    /\ result = NoResult
    /\ inferred = 0
    /\ resetLog = NoReset

Construct ==
    /\ engine.pc = "init"
    /\ engine' = EngineInit(config, env)
    /\ UNCHANGED <<config, env, result, inferred, resetLog>>
    /\ UNCHANGED varsWin
    /\ UNCHANGED varsAlert
    /\ UNCHANGED varsDrivers

ResetState ==
    /\ engine.pc = "ready"
    /\ engine' = reset_state(engine)
    /\ UNCHANGED <<config, env, result, inferred, resetLog>>
    /\ UNCHANGED varsWin
    /\ UNCHANGED varsAlert
    /\ UNCHANGED varsDrivers

InferWindow(w) ==
    /\ engine.pc = "ready"
    /\ inferred < MaxInfer
    /\ LET out == infer_window(engine, w)
       IN  /\ engine' = out.e
           /\ result' = out.r
    /\ inferred' = inferred + 1
    /\ UNCHANGED <<config, env, resetLog>>
    /\ UNCHANGED varsWin
    /\ UNCHANGED varsAlert
    /\ UNCHANGED varsDrivers

NextEngine ==
    \/ Construct
    \/ ResetState
    \/ \E w \in Windows(engine.backend_in_use) : InferWindow(w)

SpecEngine == InitEngine /\ [][NextEngine]_vars

-----------------------------------------------------------------------------
(* The alert specification: the tracker driven over the windows of one clip
   as analyze_audio drives it: window k spans t_start = k * hop to
   t_end = k * hop + window, update is called once per window in order, and
   finalize once after the last window. *)

\* The probabilities fed to the tracker, in percent
PAlert == {30, 80, 95}

WinStart(k) == k * alert.step_sec
WinEnd(k) == k * alert.step_sec + clip.window_sec

InitAlert ==
    /\ IdleWin
    /\ IdleEngine
    /\ IdleDrivers
    /\ \E w \in 1..MaxWindow, h \in 1..MaxHop, hold \in 0..MaxHold :
          /\ alert = NewAlertTracker(AlertThreshold, hold, h)
          /\ clip = [window_sec |-> w, fed |-> 0, pc |-> "run"]
    /\ runLen = 0
    /\ maxRun = 0
    /\ interrupted = 0
    /\ actLog = <<>>
    /\ lastFinalize = NoFinalize
    /\ held = NoHeld

\* One iteration of the loop over the windows
AlertUpdate(p, is_speech) ==
    /\ clip.pc = "run"
    /\ clip.fed < MaxFed
    /\ LET k == clip.fed
           above == is_speech /\ p >= alert.threshold
           a2 == update(alert, WinStart(k), WinEnd(k), p, is_speech)
           run2 == IF above THEN runLen + 1 ELSE 0
       IN  /\ alert' = a2
           /\ clip' = [clip EXCEPT !.fed = k + 1]
           /\ runLen' = run2
           /\ maxRun' = Max2(maxRun, run2)
           /\ interrupted' = IF ~above /\ runLen > 0 THEN interrupted + 1
                             ELSE interrupted
           /\ actLog' = IF ~alert.active /\ a2.active
                        THEN Append(actLog, [t_start |-> WinStart(k),
                                             t_end |-> WinEnd(k)])
                        ELSE actLog
    /\ UNCHANGED <<lastFinalize, held>>
    /\ UNCHANGED varsWin
    /\ UNCHANGED varsEngine
    /\ UNCHANGED varsDrivers

\* if windows: alert.finalize(t_end=windows[-1].t_end)
AlertFinalize ==
    /\ clip.pc = "run"
    /\ LET a2 == finalize(alert, WinEnd(clip.fed - 1))
       IN  IF clip.fed > 0
           THEN /\ alert' = a2
                /\ lastFinalize' = FinalizeCalled(lastFinalize, alert, a2,
                                                  WinEnd(clip.fed - 1))
           ELSE UNCHANGED <<alert, lastFinalize>>
    /\ clip' = [clip EXCEPT !.pc = "final"]
    /\ UNCHANGED <<runLen, maxRun, interrupted, actLog, held>>
    /\ UNCHANGED varsWin
    /\ UNCHANGED varsEngine
    /\ UNCHANGED varsDrivers

\* A caller finalizes a tracker that has been finalized, at the same or a
\* later time
AlertFinalizeAgain(t_end) ==
    /\ clip.pc = "final"
    /\ lastFinalize.calls = 1
    /\ LET a2 == finalize(alert, t_end)
       IN  /\ alert' = a2
           /\ lastFinalize' = FinalizeCalled(lastFinalize, alert, a2, t_end)
    /\ UNCHANGED <<clip, runLen, maxRun, interrupted, actLog, held>>
    /\ UNCHANGED varsWin
    /\ UNCHANGED varsEngine
    /\ UNCHANGED varsDrivers

\* A caller reads alert.segments (the point signal of the live loop, the
\* summary of analyze_audio)
GetSegments ==
    /\ clip.pc \in {"run", "final"}
    /\ held' = segments(alert)
    /\ held' # held
    /\ UNCHANGED <<alert, clip, runLen, maxRun, interrupted, actLog, lastFinalize>>
    /\ UNCHANGED varsWin
    /\ UNCHANGED varsEngine
    /\ UNCHANGED varsDrivers

\* The caller clears the list it was given
CallerClear ==
    /\ held.taken
    /\ held.items # <<>>
    /\ held' = caller_clear(held, alert).h
    /\ alert' = caller_clear(held, alert).a
    /\ UNCHANGED <<clip, runLen, maxRun, interrupted, actLog, lastFinalize>>
    /\ UNCHANGED varsWin
    /\ UNCHANGED varsEngine
    /\ UNCHANGED varsDrivers

NextAlert ==
    \/ \E p \in PAlert : AlertUpdate(p, TRUE)
    \/ AlertUpdate(0, FALSE)
    \/ AlertFinalize
    \/ \E d \in 0..1 : AlertFinalizeAgain(lastFinalize.t_end + d)
    \/ GetSegments
    \/ CallerClear

SpecAlert == InitAlert /\ [][NextAlert]_vars

-----------------------------------------------------------------------------
(* The segmentation specification: one processor, fed a signal in chunks of
   every size *)

InitWin ==
    /\ IdleAlert
    /\ IdleEngine
    /\ IdleDrivers
    /\ \E w \in 1..MaxWindow, h \in 1..MaxHop : processor = NewProcessor(w, h)
    /\ signal = <<>>
    /\ emitted = <<>>
    /\ lastPush = [size |-> 0, windows |-> <<>>]

Push(n) ==
    /\ Len(signal) + n <= MaxSignal
    /\ LET chunk == ChunkAfter(Len(signal), n)
           r == push(processor, chunk)
       IN  /\ processor' = r.p
           /\ signal' = signal \o chunk
           /\ emitted' = emitted \o r.windows
           /\ lastPush' = [size |-> n, windows |-> r.windows]
    /\ UNCHANGED varsAlert
    /\ UNCHANGED varsEngine
    /\ UNCHANGED varsDrivers

NextWin == \E n \in 0..MaxChunk : Push(n)

SpecWin == InitWin /\ [][NextWin]_vars

-----------------------------------------------------------------------------
(* The offline specification: analyze_audio over clips of every length up to
   MaxClip, for each backend an engine can end up with, as a file and as a
   microphone recording *)

\* Model configurations and environments that construct an engine of each
\* backend
AnalyzeBackends == {"onnx", "hf", "heuristic"}

AnalyzeEnv ==
    [model_exists |-> TRUE, hf_local_exists |-> TRUE,
     onnx_loads |-> TRUE, hf_loads |-> TRUE]

\* What a window or the whole clip can sound like: silence, speech the model
\* scores low, speech it scores high, speech it scores NaN
ClipContents(backend) ==
    {w \in Windows(backend) :
        /\ w.rms_db \in {RmsDbThreshold, -30}
        /\ w.raw \in {NaN, 20, 90}
        /\ w.top \in {NaN, 100}
        /\ (w.rms_db = RmsDbThreshold) => (w.raw = 20)}

ClipHolds == {1, 3}

InitAnalyze ==
    /\ IdleWin
    /\ IdleAlert
    /\ IdleEngine
    /\ IdleLive
    /\ IdleEntry
    /\ \E size \in 0..MaxClip, w \in 1..MaxClipWindow, h \in 1..MaxClipWindow,
          kind \in {"file", "mic"}, hold \in ClipHolds,
          backend \in AnalyzeBackends, prog \in BOOLEAN :
          \E pattern \in [1..2 -> ClipContents(backend)] :
             an = AnalyzeSetup(
                    [source_kind |-> kind, has_progress |-> prog,
                     size |-> size, pattern |-> pattern,
                     window_samples |-> w, hop_samples |-> h,
                     alert_hold_sec |-> hold,
                     cfg |-> [backend |-> backend, has_hf_repo_id |-> TRUE,
                              enhance |-> EnhanceDefaults],
                     ev |-> AnalyzeEnv])

\* One iteration of the for loop
AnalyzeWindow ==
    /\ an.pc = "loop"
    /\ Len(an.windows) < Len(an.iter)
    /\ an' = analyze_window(an, an.iter[Len(an.windows) + 1])
    /\ UNCHANGED <<varsWin, varsAlert, varsEngine, varsLive, varsEntry>>

\* The loop is over: finalize, the summary and the whole-clip inference
AnalyzeFinish(clip_audio, fault) ==
    /\ an.pc = "loop"
    /\ Len(an.windows) = Len(an.iter)
    /\ an' = analyze_finish(an, clip_audio, fault)
    /\ UNCHANGED <<varsWin, varsAlert, varsEngine, varsLive, varsEntry>>

NextAnalyze ==
    \/ AnalyzeWindow
    \/ \E clip_audio \in ClipContents(an.engine.backend_in_use), fault \in BOOLEAN :
          AnalyzeFinish(clip_audio, fault)

SpecAnalyze == InitAnalyze /\ [][NextAnalyze]_vars

-----------------------------------------------------------------------------
(* The session specification: one constructed engine used for session after
   session, with and without the enhancer: windows are inferred and
   reset_state is called at any moment *)

\* AppConfig.enhance: off (the default), on with its defaults, on without
\* the bandpass filter, on without the noise reduction
EnhanceConfigs ==
    {EnhanceDefaults,
     [EnhanceDefaults EXCEPT !.enabled = TRUE],
     [EnhanceDefaults EXCEPT !.enabled = TRUE, !.bandpass = FALSE],
     [EnhanceDefaults EXCEPT !.enabled = TRUE, !.noise_reduction = FALSE]}

\* The windows of a session: those of a clip, silence and speech in every
\* shorter size, and the empty array
SessionWindows(backend) ==
    ClipContents(backend)
       \cup {[w EXCEPT !.size = n] :
                w \in {c \in ClipContents(backend) : c.raw = 20},
                n \in 1..(MaxSessionWindow - 1)}
       \cup {[rms_db |-> NegInf, raw |-> 20, top |-> 100, size |-> 0]}

InitSession ==
    /\ IdleWin
    /\ IdleAlert
    /\ IdleDrivers
    /\ config \in [backend : AnalyzeBackends, has_hf_repo_id : {TRUE},
                   enhance : EnhanceConfigs]
    /\ env = AnalyzeEnv
    /\ engine = EngineInit(config, env)
    /\ result = NoResult
    /\ inferred = 0
    /\ resetLog = NoReset

SessionInfer(w) ==
    /\ inferred < MaxSessionInfer
    /\ LET out == infer_window(engine, w)
       IN  /\ engine' = out.e
           /\ result' = out.r
           /\ resetLog' = [resetLog EXCEPT
                              !.inferred_since = @ + 1,
                              !.speech_since = IF out.r.is_speech THEN @ + 1 ELSE @,
                              !.heard = Heard(@, out)]
    /\ inferred' = inferred + 1
    /\ UNCHANGED <<config, env, varsWin, varsAlert, varsDrivers>>

SessionReset ==
    /\ engine' = reset_state(engine)
    /\ resetLog' = [resets |-> 1, found |-> SessionState(engine),
                    inferred_since |-> 0, speech_since |-> 0, heard |-> NoHistory]
    /\ UNCHANGED <<config, env, result, inferred, varsWin, varsAlert, varsDrivers>>

NextSession ==
    \/ \E w \in SessionWindows(engine.backend_in_use) : SessionInfer(w)
    \/ SessionReset

SpecSession == InitSession /\ [][NextSession]_vars

-----------------------------------------------------------------------------
(* The live specification: the analyzer thread, the audio callback that fills
   the capture queue with chunks of every size, and the GUI thread that
   requests the interruption at any moment.  The variable ref follows the
   trackers analyze_audio holds after the same window results. *)

LiveInputs ==
    [pattern : [1..2 -> ClipContents("heuristic")],
     window_samples : 1..MaxClipWindow,
     hop_samples : 1..MaxClipWindow,
     alert_hold_sec : ClipHolds,
     cfg : {[backend |-> "heuristic", has_hf_repo_id |-> FALSE,
             enhance |-> EnhanceDefaults]},
     ev : {AnalyzeEnv}]

InitLive ==
    /\ IdleWin
    /\ IdleAlert
    /\ IdleEngine
    /\ IdleAnalyze
    /\ IdleEntry
    /\ \E in \in LiveInputs :
          /\ live = NewLiveThread(in)
          /\ ref = RefTrackers(in)
    /\ capture = NewCapture

\* capture.start: the stream opens at the preferred rate, or start raises and
\* run returns after error.emit
LiveStart(ok) ==
    /\ live.pc = "start"
    /\ IF ok
       THEN /\ live' = [live EXCEPT !.pc = "check"]
            /\ capture' = [capture EXCEPT !.queue = <<>>, !.running = TRUE]
       ELSE /\ live' = [live EXCEPT !.pc = "done", !.error = TRUE]
            /\ capture' = [capture EXCEPT !.running = FALSE]
    /\ UNCHANGED <<ref, varsWin, varsAlert, varsEngine, varsAnalyze, varsEntry>>

\* The audio callback delivers the next n samples
Callback(n) ==
    /\ capture.running
    /\ capture.produced + n <= MaxLiveSignal
    /\ capture' = [put_nowait(capture, ChunkAfter(capture.produced, n))
                     EXCEPT !.produced = @ + n]
    /\ UNCHANGED <<live, ref, varsWin, varsAlert, varsEngine, varsAnalyze, varsEntry>>

\* LiveTab._stop: self._thread.requestInterruption()
RequestInterruption ==
    /\ live.pc # "done"
    /\ ~live.interruption_requested
    /\ live' = [live EXCEPT !.interruption_requested = TRUE]
    /\ UNCHANGED <<capture, ref, varsWin, varsAlert, varsEngine, varsAnalyze, varsEntry>>

\* The while condition is evaluated
LiveCheck ==
    /\ live.pc = "check"
    /\ live' = [live EXCEPT !.pc = IF while_condition(live) THEN "get" ELSE "stop"]
    /\ UNCHANGED <<capture, ref, varsWin, varsAlert, varsEngine, varsAnalyze, varsEntry>>

\* queue.get returns a chunk, which is pushed to the processor, or raises
\* queue.Empty
LiveGet ==
    /\ live.pc = "get"
    /\ \E g \in {queue_get(capture.queue)} :
         \E r \in {push(live.processor, g.chunk)} :
           /\ g.kind # "waiting"
           /\ IF g.kind = "Empty"
              THEN /\ live' = [live EXCEPT !.pc = "check"]
                   /\ UNCHANGED capture
              ELSE /\ live' = [live EXCEPT
                                 !.processor = r.p,
                                 !.pending = r.windows,
                                 !.taken = @ + 1,
                                 !.taken_since =
                                    IF live.interruption_requested THEN @ + 1
                                    ELSE @,
                                 !.pc = IF Len(r.windows) > 0 THEN "windows"
                                        ELSE "check"]
                   /\ capture' = [capture EXCEPT !.queue = g.queue]
    /\ UNCHANGED <<ref, varsWin, varsAlert, varsEngine, varsAnalyze, varsEntry>>

\* One window of the chunk is inferred and reported
LiveWindow(fault) ==
    /\ live.pc = "windows"
    /\ \E out \in {LiveInfer(live)} :
          /\ live' = live_window(live, out, fault)
          /\ ref' = IF fault \/ out.r.kind = "raised" THEN ref
                    ELSE LET w == Head(live.pending)
                         IN  [kind \in {"file", "mic"} |->
                                analyze_alert_update(
                                  ref[kind], kind = "file", w.start_sample,
                                  w.start_sample + live.processor.window_samples,
                                  out.r)]
    /\ UNCHANGED <<capture, varsWin, varsAlert, varsEngine, varsAnalyze, varsEntry>>

\* finally: capture.stop(), and run returns
LiveStop ==
    /\ live.pc = "stop"
    /\ live' = [live EXCEPT !.pc = "done"]
    /\ capture' = [capture EXCEPT !.running = FALSE]
    /\ UNCHANGED <<ref, varsWin, varsAlert, varsEngine, varsAnalyze, varsEntry>>

\* The steps of the analyzer thread
ThreadStep ==
    \/ \E ok \in BOOLEAN : LiveStart(ok)
    \/ LiveCheck
    \/ LiveGet
    \/ \E fault \in BOOLEAN : LiveWindow(fault)
    \/ LiveStop

NextLive ==
    \/ ThreadStep
    \/ \E n \in 1..MaxLiveChunk : Callback(n)
    \/ RequestInterruption

SpecLive == InitLive /\ [][NextLive]_vars

\* The sessions whose windows all have the same content, with the shorter
\* hold
LiveFairInputs ==
    {in \in LiveInputs : in.pattern[1] = in.pattern[2] /\ in.alert_hold_sec = 1}

InitLiveFair ==
    /\ IdleWin
    /\ IdleAlert
    /\ IdleEngine
    /\ IdleAnalyze
    /\ IdleEntry
    /\ \E in \in LiveFairInputs :
          /\ live = NewLiveThread(in)
          /\ ref = RefTrackers(in)
    /\ capture = NewCapture

\* The analyzer thread is a running operating-system thread: it takes its
\* next step whenever it has one
SpecLiveFair == InitLiveFair /\ [][NextLive]_vars /\ WF_vars(ThreadStep)

-----------------------------------------------------------------------------
(* The gate specification: is_speech_window called once on a window and a
   threshold *)

\* Every window of at most MaxVadLen samples
VadWindows ==
    UNION {[1..n -> {-1, 0, 1}] : n \in 0..MaxVadLen}

\* VadConfig.rms_db_threshold is any float: -inf, nan, a level below
\* 20 * log10(eps), that level, the default, a level near full scale
VadThresholds == {NegInf, NaN, EpsDb - 6000, EpsDb, RmsDbThreshold * 100, -100}

InitVad ==
    /\ IdleWin
    /\ IdleAlert
    /\ IdleEngine
    /\ IdleAnalyze
    /\ IdleLive
    /\ entry = [pc |-> "idle"]
    /\ IdleShell
    /\ \E audio \in VadWindows, threshold_db \in VadThresholds :
          vad = [pc |-> "call", audio |-> audio, threshold_db |-> threshold_db,
                 is_speech |-> FALSE]

IsSpeechWindow ==
    /\ vad.pc = "call"
    /\ vad' = [vad EXCEPT !.pc = "done",
                          !.is_speech = is_speech_window(vad.audio,
                                                         vad.threshold_db)]
    /\ UNCHANGED <<entry, varsShell, varsWin, varsAlert, varsEngine, varsAnalyze,
                   varsLive>>

NextVad == IsSpeechWindow

SpecVad == InitVad /\ [][NextVad]_vars

-----------------------------------------------------------------------------
(* The entry-point specification: one call of window_params, of
   StreamWindowProcessor(...), of iter_windows or of estimate_num_windows,
   with durations and sample counts of either sign *)

InitEntry ==
    /\ IdleWin
    /\ IdleAlert
    /\ IdleEngine
    /\ IdleAnalyze
    /\ IdleLive
    /\ vad = [pc |-> "idle"]
    /\ IdleShell
    /\ \/ \E fn \in {"window_params", "StreamWindowProcessor"},
             w \in -3..MaxHalf, h \in -3..MaxHalf :
             entry = [pc |-> "call", fn |-> fn, window |-> w, hop |-> h,
                      num_samples |-> 0, outcome |-> NoOutcome]
       \/ \E fn \in {"iter_windows", "estimate_num_windows"},
             w \in -1..MaxEntrySamples, h \in -1..MaxEntrySamples,
             n \in 0..MaxEntryClip :
             entry = [pc |-> "call", fn |-> fn, window |-> w, hop |-> h,
                      num_samples |-> n, outcome |-> NoOutcome]

EntryDone(outcome) ==
    /\ entry' = [entry EXCEPT !.pc = "done", !.outcome = outcome]
    /\ UNCHANGED <<vad, varsShell, varsWin, varsAlert, varsEngine, varsAnalyze,
                   varsLive>>

CallWindowParams ==
    /\ entry.pc = "call" /\ entry.fn = "window_params"
    /\ EntryDone(window_params(entry.window, entry.hop))

CallStreamWindowProcessor ==
    /\ entry.pc = "call" /\ entry.fn = "StreamWindowProcessor"
    /\ EntryDone(StreamWindowProcessor(entry.window, entry.hop))

CallIterWindows ==
    /\ entry.pc = "call" /\ entry.fn = "iter_windows"
    /\ EntryDone(iter_windows_call(entry.num_samples, entry.window, entry.hop))

CallEstimateNumWindows ==
    /\ entry.pc = "call" /\ entry.fn = "estimate_num_windows"
    /\ EntryDone(estimate_num_windows_call(entry.num_samples, entry.window,
                                           entry.hop))

NextEntry ==
    \/ CallWindowParams
    \/ CallStreamWindowProcessor
    \/ CallIterWindows
    \/ CallEstimateNumWindows

SpecEntry == InitEntry /\ [][NextEntry]_vars

-----------------------------------------------------------------------------
(* Properties of the segmenters (checked under SpecWin) *)

WindowOf(sig, start, window_samples) == PySlice(sig, start, start + window_samples)

\* C1: the concatenation of the lists returned by the successive push calls
\* is the sequence of (start_sample, samples) pairs iter_windows yields over
\* the signal pushed, for every window and hop and every way of chunking.
\* Stated for the signals that hold at least one window (and the empty one):
\* on a shorter signal iter_windows yields its one zero-padded window while
\* the stream, which has no end, is still waiting for samples.
C1_StreamEqualsOffline ==
    (Len(signal) = 0 \/ Len(signal) >= processor.window_samples) =>
        emitted = iter_windows(signal, processor.window_samples, processor.hop_samples)

\* C2: every window emitted with start_sample s holds exactly the pushed
\* samples s .. s + window_samples - 1, and buffer_start + len(buffer) equals
\* total_samples after every push, also when hop_samples > window_samples.
C2_WindowsHoldTheirSamples ==
    /\ \A i \in 1..Len(emitted) :
          /\ Len(emitted[i].samples) = processor.window_samples
          /\ emitted[i].samples =
                WindowOf(signal, emitted[i].start_sample, processor.window_samples)
    /\ processor.buffer_start + Len(processor.buffer) = processor.total_samples

\* C3: estimate_num_windows(n) is the number of windows iter_windows yields
\* for a buffer of n samples: 0 for an empty buffer, 1 (padded) for a buffer
\* shorter than one window, else 1 + floor((n - window) / hop).
C3_EstimateMatchesIterWindows ==
    LET n == Len(signal)
        w == processor.window_samples
        h == processor.hop_samples
        yielded == iter_windows(signal, w, h)
    IN  /\ estimate_num_windows(n, w, h) = Len(yielded)
        /\ (n = 0) => Len(yielded) = 0
        /\ (0 < n /\ n < w) =>
              /\ Len(yielded) = 1
              /\ yielded[1].samples = signal \o Zeros(w - n)
        /\ (n >= w) => \E q \in 0..n :
              /\ q * h <= n - w
              /\ n - w < (q + 1) * h
              /\ Len(yielded) = 1 + q

\* C3 witness: a buffer that holds several windows and a remainder that is
\* not a whole hop.
C3_Witness ==
    /\ Len(signal) > processor.window_samples + 2 * processor.hop_samples
    /\ processor.hop_samples > 1
    /\ (Len(signal) - processor.window_samples) % processor.hop_samples # 0
    /\ estimate_num_windows(Len(signal), processor.window_samples,
                            processor.hop_samples) = 3

-----------------------------------------------------------------------------
(* Properties of the alert tracker (checked under SpecAlert) *)

Abs(x) == IF x < 0 THEN 0 - x ELSE x

\* The accumulated above-threshold time of the current run has reached hold_sec
RunReachedHold == runLen >= 1 /\ runLen * alert.step_sec >= alert.hold_sec

\* Segments and activations correspond one to one, in order: the tracker is
\* active exactly from the first window of a run at which the accumulated
\* time reaches hold_sec, and each activation yields exactly one segment once
\* its run has ended.
OneSegmentPerActivation ==
    /\ (clip.pc = "run") => (alert.active <=> RunReachedHold)
    /\ (clip.pc = "final") => ~alert.active
    /\ Len(actLog) = Len(alert.segments) + (IF alert.active THEN 1 ELSE 0)

\* C4 as claimed: ... and the segment's start_sec is within one hop of the
\* activating window's t_end - hold_sec.
C4_StartWithinHopOfHold ==
    /\ OneSegmentPerActivation
    /\ \A i \in 1..Len(alert.segments) :
          Abs(alert.segments[i].start_sec - (actLog[i].t_end - alert.hold_sec))
             <= alert.step_sec

\* C4 as amended: the tracker becomes active at the first window of a run at
\* which the accumulated time reaches hold_sec, exactly one segment is
\* produced once the run ends, and its start_sec, max(t_start, t_end -
\* above_sec), is within one hop of max(t_start, t_end - hold_sec) of the
\* activating window; it is within one hop of t_end - hold_sec when hold_sec
\* is at most the window length plus one hop.
C4_StartWithinHopOfClampedHold ==
    /\ OneSegmentPerActivation
    /\ \A i \in 1..Len(alert.segments) :
          LET seg == alert.segments[i]
              act == actLog[i]
          IN  /\ Abs(seg.start_sec - Max2(act.t_start, act.t_end - alert.hold_sec))
                    <= alert.step_sec
              /\ (alert.hold_sec <= clip.window_sec + alert.step_sec) =>
                    Abs(seg.start_sec - (act.t_end - alert.hold_sec))
                       <= alert.step_sec

\* C4 witness: a run that took several windows to reach hold_sec, with the
\* accumulated time overshooting it, has ended and left its one segment,
\* which starts after the activating window's t_start.
C4_Witness ==
    /\ Len(alert.segments) = 1
    /\ Len(actLog) = 1
    /\ ~alert.active
    /\ alert.hold_sec > alert.step_sec
    /\ alert.hold_sec % alert.step_sec # 0
    /\ alert.hold_sec <= clip.window_sec + alert.step_sec
    /\ alert.segments[1].start_sec > actLog[1].t_start
    /\ alert.segments[1].start_sec < actLog[1].t_end - alert.hold_sec

\* C5: if every run of above-threshold speech windows is interrupted before
\* its accumulated time reaches hold_sec, the tracker never becomes active
\* and the segment list is empty, also after finalize.
C5_ShortRunsRaiseNoAlert ==
    (maxRun = 0 \/ maxRun * alert.step_sec < alert.hold_sec) =>
        /\ ~alert.active
        /\ alert.segments = <<>>
        /\ actLog = <<>>

\* C5 witness: two runs of two windows each were interrupted short of
\* hold_sec, and the clip has been finalized.
C5_Witness ==
    /\ clip.pc = "final"
    /\ interrupted >= 2
    /\ maxRun >= 2
    /\ maxRun * alert.step_sec < alert.hold_sec
    /\ alert.segments = <<>>

-----------------------------------------------------------------------------
(* Properties of the engine (checked under SpecEngine) *)

InUnit(x) == x # NaN /\ x >= 0 /\ x <= 100

\* C7: an InferenceResult with is_speech false has p_fake and p_fake_smooth
\* NaN and confidence 0; one with is_speech true has p_fake, p_fake_smooth
\* and confidence within [0, 1], never NaN, whatever the backend returned.
C7_ResultWellFormed ==
    (result.kind = "ok") =>
        IF result.is_speech
        THEN InUnit(result.p_fake) /\ InUnit(result.p_fake_smooth)
             /\ InUnit(result.confidence)
        ELSE result.p_fake = NaN /\ result.p_fake_smooth = NaN
             /\ result.confidence = 0

Constructed == engine.pc = "ready"

\* C8 as claimed, for the four known requests and with every model loading
\* when it is tried: ONNX if its artifact exists; otherwise HF if it was
\* requested or a local snapshot exists; otherwise heuristic with a note.
C8_PriorityForEveryRequest ==
    (/\ Constructed
     /\ config.backend \in KnownBackends
     /\ env.onnx_loads /\ env.hf_loads /\ config.has_hf_repo_id) =>
        IF env.model_exists THEN engine.backend_in_use = "onnx"
        ELSE IF config.backend = "hf" \/ env.hf_local_exists
        THEN engine.backend_in_use = "hf"
        ELSE engine.backend_in_use = "heuristic" /\ engine.backend_note # ""

\* What the request allows to be tried
MayTryOnnx == config.backend \in {"auto", "onnx"}
MayTryHf == config.backend = "hf" \/ (config.backend = "auto" /\ env.hf_local_exists)
OnnxUsable == MayTryOnnx /\ env.model_exists /\ env.onnx_loads
HfUsable ==
    MayTryHf /\ env.hf_loads /\ (env.hf_local_exists \/ config.has_hf_repo_id)

\* C8 as amended: the priority ONNX, then HF, then heuristic holds among the
\* backends the request allows: "auto" allows ONNX and, if a local snapshot
\* exists, HF; "onnx" allows only ONNX; "hf" allows only HF; "heuristic"
\* allows neither.  The first allowed backend whose artifact is present and
\* loads is used; if there is none, the heuristic is used with a note.
C8_PriorityAmongAllowed ==
    (Constructed /\ config.backend \in KnownBackends) =>
        IF OnnxUsable THEN engine.backend_in_use = "onnx"
        ELSE IF HfUsable THEN engine.backend_in_use = "hf"
        ELSE engine.backend_in_use = "heuristic" /\ engine.backend_note # ""

\* C8 witness: in auto mode without an ONNX artifact, the local snapshot
\* makes the engine use HF, and a window has been inferred with it.
C8_Witness ==
    /\ Constructed
    /\ config.backend = "auto"
    /\ ~env.model_exists
    /\ env.hf_local_exists
    /\ engine.backend_in_use = "hf"
    /\ result.kind = "ok" /\ result.is_speech

BackendLoaded ==
    /\ (engine.backend_in_use = "onnx") => (engine.onnx = Loaded)
    /\ (engine.backend_in_use = "hf") => (engine.hf = Loaded)

FailedObjectsAreNone ==
    /\ engine.onnx_raised => engine.onnx = None
    /\ engine.hf_raised => engine.hf = None

\* C9 as claimed: whenever the construction of OnnxModel or HfAudioClassifier
\* raises, the constructor still returns, with backend = heuristic, the
\* failed backend object None and a non-empty note; and a selected backend
\* is always loaded, so infer_window never raises for a missing model.
C9_FailureEndsHeuristic ==
    /\ engine.pc \in {"init", "ready"}
    /\ result.kind # "raised"
    /\ Constructed =>
          /\ BackendLoaded
          /\ (engine.onnx_raised \/ engine.hf_raised) =>
                /\ FailedObjectsAreNone
                /\ engine.backend_note # ""
                /\ engine.backend_in_use = "heuristic"

\* C9 as amended: ... the engine ends with backend = heuristic, except that
\* in auto mode, after OnnxModel has raised, the HF classifier is still tried
\* if a local snapshot exists, and the engine ends with backend = hf if it
\* loads.
C9_FailureEndsHeuristicOrNextBackend ==
    /\ engine.pc \in {"init", "ready"}
    /\ result.kind # "raised"
    /\ Constructed =>
          /\ BackendLoaded
          /\ (engine.onnx_raised \/ engine.hf_raised) =>
                /\ FailedObjectsAreNone
                /\ engine.backend_note # ""
                /\ \/ engine.backend_in_use = "heuristic"
                   \/ /\ engine.backend_in_use = "hf"
                      /\ config.backend = "auto"
                      /\ env.hf_local_exists
                      /\ engine.onnx_raised /\ ~engine.hf_raised
                /\ engine.hf_raised => engine.backend_in_use = "heuristic"
                /\ (engine.onnx_raised /\ ~HfUsable) =>
                      engine.backend_in_use = "heuristic"

\* C9 witness: both constructions raised, the engine runs the heuristic and
\* has inferred a speech window.
C9_Witness ==
    /\ Constructed
    /\ engine.onnx_raised /\ engine.hf_raised
    /\ engine.backend_in_use = "heuristic"
    /\ engine.backend_note = "HF backend unavailable"
    /\ result.kind = "ok" /\ result.is_speech

\* C10: after construction backend_note is non-empty exactly in heuristic
\* mode: non-empty if backend = heuristic, empty if backend is onnx or hf.
C10_NoteIffHeuristic ==
    Constructed =>
        /\ (engine.backend_in_use = "heuristic") => engine.backend_note # ""
        /\ (engine.backend_in_use \in {"onnx", "hf"}) => engine.backend_note = ""

-----------------------------------------------------------------------------
(* Properties of reset_state (checked under SpecSession) *)

\* C15: after reset_state the engine is in the state of a freshly constructed
\* engine of the same configuration: no running average (so the next speech
\* window has p_fake_smooth = p_fake, both NaN when the model answers NaN), no
\* filter state, no noise profile, the backend and its note as constructed.
\* infer_window being a function of the engine's state and the window, every
\* window sequence then gives the results it gives on a fresh engine.
C15_ResetStateGivesFreshSession ==
    resetLog.resets > 0 =>
        /\ engine.backend_in_use = EngineInit(config, env).backend_in_use
        /\ engine.backend_note = EngineInit(config, env).backend_note
        /\ resetLog.inferred_since = 0 => engine = EngineInit(config, env)
        /\ (resetLog.speech_since = 1 /\ result.is_speech) =>
              result.p_fake_smooth = result.p_fake

\* reset_state has just cleared a running average, a filter state and a noise
\* profile
C15_Witness ==
    /\ resetLog.resets > 0
    /\ resetLog.inferred_since = 0
    /\ resetLog.found.ema
    /\ resetLog.found.sos_state
    /\ resetLog.found.noise_mag
    /\ ~engine.has_ema
    /\ engine.enhancer.sos_state = None
    /\ engine.enhancer.noise_mag = None

-----------------------------------------------------------------------------
(* Properties of AlertTracker.finalize (checked under SpecAlert) *)

\* C13: finalize(t_end) appends AlertSegment(active_start, t_end) exactly when
\* the tracker is active and appends nothing otherwise, leaves the tracker
\* inactive with above_sec = 0, and a second finalize appends nothing.
\* (Checked under SpecAlert, where from the first finalize on the tracker is
\* the one the last finalize call left.)
C13_FinalizeClosesOnce ==
    lastFinalize.calls > 0 =>
        LET before == lastFinalize.before
        IN  /\ alert.segments =
                  IF before.active
                  THEN Append(before.segments,
                              [start_sec |-> before.active_start,
                               end_sec |-> lastFinalize.t_end])
                  ELSE before.segments
            /\ ~alert.active
            /\ alert.above_sec = 0
            /\ lastFinalize.calls > 1 => alert.segments = before.segments

\* A tracker finalized twice, whose first finalize closed an open alert
C13_Witness ==
    /\ lastFinalize.calls = 2
    /\ lastFinalize.appended = 1
    /\ Len(alert.segments) >= 1

-----------------------------------------------------------------------------
(* Properties of analyze_audio (checked under SpecAnalyze) *)

SomeSpeechWindow ==
    \E i \in 1..Len(an.windows) : an.windows[i].result.is_speech

\* The whole-clip inference was made and answered a valid speech result
ValidClipResult ==
    /\ an.clip_res.kind = "ok"
    /\ an.clip_res.is_speech
    /\ an.clip_res.p_fake # NaN

\* C11: when analyze_audio returns, p_fake_overall is the larger of the 95th
\* percentile and the whole-clip score if the backend is hf, some window is
\* speech and the whole-clip inference answered a valid speech result; in
\* every other case, the whole-clip inference raising included, it is the
\* 95th percentile, and analyze_audio returns rather than raises.
C11_OverallIsMaxOfP95AndValidClip ==
    /\ an.pc # "raised"
    /\ an.pc = "done" =>
          /\ ValidClipResult => an.engine.backend_in_use = "hf" /\ SomeSpeechWindow
          /\ an.p_fake_overall =
                IF ValidClipResult
                THEN Max2(an.p_fake_p95, 20 * an.clip_res.p_fake)
                ELSE an.p_fake_p95

\* The whole-clip inference raised, after windows that scored above zero
C11_Witness ==
    /\ an.pc = "done"
    /\ an.clip_res.kind = "raised"
    /\ an.p_fake_p95 > 0
    /\ an.p_fake_overall = an.p_fake_p95

-----------------------------------------------------------------------------
(* Properties of the two drivers of the tracker (checked under SpecLive,
   where ref holds the trackers of analyze_audio after the same windows) *)

LiveStarted == live.pc \notin {"idle", "start"}

\* C12 as stated: after every window the live loop's tracker has made the
\* alert decision, and holds the segment list, of analyze_audio run on a file
\* over the same windows.
C12_LiveEqualsOfflineFile ==
    LiveStarted =>
        /\ live.alert.active = ref["file"].active
        /\ live.alert.segments = ref["file"].segments

\* C12 amended: after every window the live loop's tracker equals, field by
\* field, the tracker of analyze_audio run with a source kind other than
\* "file" over the same window results: same hold_sec and step_sec, the same
\* p (p_fake_smooth) fed, the same alert decision, the same segment list.
C12_LiveEqualsOfflineRecording ==
    LiveStarted => live.alert = ref["mic"]

\* The live tracker is active after three windows, where the tracker of
\* analyze_audio on a file is in a different state
C12_Witness ==
    /\ LiveStarted
    /\ Len(live.points) >= 3
    /\ live.alert.active
    /\ ref["mic"].active
    /\ ref["file"] # live.alert

\* C14: a session that has ended has finalized its tracker: no alert is left
\* open, and every activation has its segment in the list (of analyze_audio
\* when it returns; of the live thread when run returns).
C14_EndedSessionsAreFinalized ==
    /\ an.pc = "done" => ~an.alert.active
    /\ live.pc = "done" =>
          /\ ~live.alert.active
          /\ Len(live.alert.segments) = live.activations

-----------------------------------------------------------------------------
(* Properties of the progress callback of analyze_audio (checked under
   SpecAnalyze) *)

\* The progress calls made so far are well formed: strictly increasing
\* windows_done, one windows_total, a call for every 10th processed window
ProgressCallsWellFormed ==
    /\ \A i \in 1..Len(an.calls) : an.calls[i][2] = an.total
    /\ \A i \in 1..Len(an.calls) - 1 : an.calls[i][1] < an.calls[i + 1][1]
    /\ \A k \in 1..an.processed :
          k % 10 = 0 => \E i \in 1..Len(an.calls) : an.calls[i][1] = k

\* C16: with a progress callback, analyze_audio calls it after every 10th
\* processed window with strictly increasing windows_done and one
\* windows_total, and once all windows have been processed the last call is
\* (windows_total, windows_total), for every clip length, the empty clip
\* included
C16_ProgressEndsWithTotal ==
    (an.pc # "idle" /\ an.has_progress) =>
        /\ ProgressCallsWellFormed
        /\ an.pc = "done" =>
              /\ Len(an.calls) > 0
              /\ an.calls[Len(an.calls)] = <<an.total, an.total>>

\* The same for the clips that have at least one sample
C16_ProgressEndsWithTotalNonEmpty ==
    (an.pc # "idle" /\ an.has_progress /\ an.size > 0) =>
        /\ ProgressCallsWellFormed
        /\ an.pc = "done" =>
              /\ Len(an.calls) > 0
              /\ an.calls[Len(an.calls)] = <<an.total, an.total>>

-----------------------------------------------------------------------------
(* Properties of the VAD gate (checked under SpecVad) *)

\* A non-empty window of zeros
AllZero(audio) ==
    Len(audio) > 0 /\ \A i \in 1..Len(audio) : audio[i] = 0

Finite(x) == x # NaN /\ x # NegInf

\* C17 as stated: an all-zero window is not speech for every finite
\* threshold, and an empty window is not speech for every threshold
C17_SilenceIsNeverSpeech ==
    vad.pc = "done" =>
        /\ (AllZero(vad.audio) /\ Finite(vad.threshold_db)) => ~vad.is_speech
        /\ Len(vad.audio) = 0 => ~vad.is_speech

\* C17: an all-zero window is not speech for every finite threshold of at
\* least 20 * log10(eps) = -240 dB and is speech for every finite threshold
\* below it; an empty window is not speech for every threshold
C17_SilenceIsNotSpeechDownToEps ==
    vad.pc = "done" =>
        /\ (AllZero(vad.audio) /\ Finite(vad.threshold_db)) =>
              (vad.is_speech <=> vad.threshold_db < EpsDb)
        /\ Len(vad.audio) = 0 => ~vad.is_speech

\* The gate has refused an all-zero window at the threshold -240 dB
C17_Witness ==
    /\ vad.pc = "done"
    /\ AllZero(vad.audio)
    /\ vad.threshold_db = EpsDb
    /\ ~vad.is_speech

-----------------------------------------------------------------------------
(* Properties of the segmentation entry points (checked under SpecEntry) *)

\* The call is one that builds a segmenter from durations
FromDurations == entry.fn \in {"window_params", "StreamWindowProcessor"}

\* The window or the hop the call works with is <= 0 samples
NoSamples ==
    IF FromDurations
    THEN entry.window <= 1 \/ entry.hop <= 1
    ELSE entry.window <= 0 \/ entry.hop <= 0

\* C18 as stated: a window or hop of <= 0 samples makes every entry point
\* raise ValueError, iter_windows and estimate_num_windows included
C18_EveryEntryPointRejects ==
    (entry.pc = "done" /\ NoSamples) => entry.outcome.kind = "ValueError"

\* C18: window_params and StreamWindowProcessor(...) raise ValueError iff the
\* window or the hop rounds to <= 0 samples (at most half a sample), so what
\* they return has window_samples > 0 and hop_samples > 0; called directly,
\* estimate_num_windows returns 0 for such values and iter_windows raises
\* ValueError only for a hop of 0 on a clip that is not empty and not
\* shorter than the window
C18_DurationsRejectedAtConstruction ==
    entry.pc = "done" =>
        /\ FromDurations =>
              /\ NoSamples <=> entry.outcome.kind = "ValueError"
              /\ entry.outcome.kind = "returned" =>
                    /\ entry.outcome.window_samples > 0
                    /\ entry.outcome.hop_samples > 0
                    /\ 2 * entry.outcome.window_samples \in
                          (entry.window - 1)..(entry.window + 1)
        /\ (entry.fn = "estimate_num_windows" /\ NoSamples) =>
              entry.outcome = Returned(entry.window, entry.hop, 0)
        /\ (entry.fn = "iter_windows" /\ NoSamples) =>
              (entry.outcome.kind = "ValueError" <=>
                  /\ entry.hop = 0
                  /\ entry.num_samples > 0
                  /\ entry.num_samples >= entry.window)

\* StreamWindowProcessor(...) has refused a window of half a sample with a
\* hop of one sample
C18_Witness ==
    /\ entry.pc = "done"
    /\ entry.fn = "StreamWindowProcessor"
    /\ entry.window = 1
    /\ entry.hop = 2
    /\ entry.outcome.kind = "ValueError"

-----------------------------------------------------------------------------
(* Properties of the cancellation of a live session (checked under
   SpecLiveFair) *)

\* What a step may do once the interruption has been requested: the while
\* condition, evaluated, leaves the loop and takes no chunk; a window whose
\* inference is due is inferred and reported (or its exception is caught)
CancelStep ==
    live.interruption_requested =>
        /\ live.pc = "check" => live'.pc \in {"check", "stop"}
        /\ (live.pc = "windows" /\ live' # live) =>
              \/ live'.error
              \/ /\ Len(live'.points) = Len(live.points) + 1
                 /\ live'.pending = Tail(live.pending)
        /\ live'.interruption_requested

\* C19: once the interruption is requested the loop finishes the windows in
\* flight and leaves at its next while condition without taking a chunk (at
\* most the one get that had begun before the request returns a chunk), a
\* get on an empty queue times out, and the thread reaches its end
C19_CancellationIsCooperativeAndEffective ==
    /\ [][CancelStep]_vars
    /\ [](live.pc # "idle" => live.taken_since <= 1)
    /\ (live.pc # "idle" /\ live.interruption_requested) ~> (live.pc = "done")

\* An interrupted thread has ended after reporting windows, leaving a chunk
\* in the queue
C19_Witness ==
    /\ live.pc = "done"
    /\ live.interruption_requested
    /\ ~live.error
    /\ Len(live.points) > 0
    /\ Len(capture.queue) > 0

-----------------------------------------------------------------------------
(* Properties of StreamWindowProcessor.push over a whole stream (checked
   under SpecWin) *)

\* No window is ready: the next one would end after the last sample received
NoWindowReady ==
    processor.next_window_start + processor.window_samples > processor.total_samples

\* The windows emitted so far start at 0, hop, 2 * hop, ... and the next one
\* starts one hop after the last
StartsAreMultiplesOfHop ==
    /\ \A i \in 1..Len(emitted) :
          emitted[i].start_sample = (i - 1) * processor.hop_samples
    /\ processor.next_window_start = Len(emitted) * processor.hop_samples

\* total_samples grows by the size of the chunk pushed and next_window_start
\* by one hop for each window returned
CountersGrow ==
    /\ processor'.total_samples = processor.total_samples + lastPush'.size
    /\ processor'.next_window_start =
          processor.next_window_start
             + Len(lastPush'.windows) * processor.hop_samples
    /\ processor'.total_samples >= processor.total_samples
    /\ processor'.next_window_start >= processor.next_window_start

\* C20: after every push no window is left ready; over the whole stream the
\* emitted start_sample values are 0, hop, 2 * hop, ... in strictly
\* increasing order without repeats; total_samples and next_window_start never
\* decrease
C20_PushEmitsEveryReadyWindow ==
    /\ [](NoWindowReady /\ StartsAreMultiplesOfHop)
    /\ [][CountersGrow]_vars

\* A push has returned two windows at once, after three or more windows, with
\* a hop of several samples
C20_Witness ==
    /\ Len(emitted) >= 3
    /\ Len(lastPush.windows) >= 2
    /\ processor.hop_samples >= 2
    /\ NoWindowReady

-----------------------------------------------------------------------------
(* Properties of the buffer of StreamWindowProcessor (checked under SpecWin) *)

\* The global index of a sample of the signal pushed (see SampleAt)
IndexOf(sample) == sample - 1

\* The buffer holds no sample before next_window_start and is shorter than a
\* window; an empty chunk returns no window
BufferIsBounded ==
    /\ \A i \in 1..Len(processor.buffer) :
          IndexOf(processor.buffer[i]) >= processor.next_window_start
    /\ Len(processor.buffer) < processor.window_samples
    /\ lastPush.size = 0 => lastPush.windows = <<>>

\* C21: after every push the buffer holds no sample with a global index below
\* next_window_start, so it is shorter than window_samples whatever was
\* pushed; an empty chunk returns no windows
C21_BufferIsBounded == BufferIsBounded

\* The same for the processors whose hop is at most their window
C21_BufferIsBoundedHopWithinWindow ==
    processor.hop_samples <= processor.window_samples => BufferIsBounded

-----------------------------------------------------------------------------
(* Properties of AlertTracker.update on a window below the threshold
   (checked under SpecAlert) *)

\* s is t, or t with segments appended
IsPrefix(s, t) == Len(s) <= Len(t) /\ SubSeq(t, 1, Len(s)) = s

\* The step is an update call on a window that is non-speech or has
\* p < threshold (the run of windows above the threshold is over)
UpdateBelow == clip'.fed = clip.fed + 1 /\ runLen' = 0

\* What such an update does, and what every step does to the segments
UpdateBelowStep ==
    /\ UpdateBelow =>
          /\ ~alert'.active
          /\ alert'.above_sec = 0
          /\ alert'.segments =
                IF alert.active
                THEN Append(alert.segments,
                            [start_sec |-> alert.active_start,
                             end_sec |-> WinEnd(clip.fed)])
                ELSE alert.segments
    /\ IsPrefix(alert.segments, alert'.segments)

\* C22: update on a window that is non-speech or has p < threshold returns
\* False and leaves the tracker inactive with above_sec = 0; it appends the
\* one segment (active_start, t_end) if the tracker was active and nothing
\* otherwise; no call of update or finalize, and nothing a caller does to a
\* list the segments property returned, modifies or removes a segment
C22_UpdateBelowClosesAndKeepsSegments == [][UpdateBelowStep]_vars

\* An update below the threshold has closed an alert after a caller had
\* cleared the list it had been given
C22_Witness ==
    /\ held.cleared
    /\ Len(alert.segments) >= 2
    /\ runLen = 0
    /\ interrupted >= 2
    /\ ~alert.active
    /\ clip.pc = "run"

-----------------------------------------------------------------------------
(* Properties of infer_window on silent windows (checked under SpecSession) *)

\* The step is an infer_window call that returned
Inferred == inferred' = inferred + 1 /\ result'.kind = "ok"

\* p_fake_smooth as the smoother computes it from a speech window's p_fake and
\* the EMA the last speech window of the session left (none: p_fake itself)
SmoothFrom(h, p_fake) ==
    IF ~h.has_speech THEN p_fake
    ELSE IF p_fake = NaN \/ h.speech_ema = NaN THEN NaN
    ELSE clamp((EmaAlpha * p_fake + (100 - EmaAlpha) * h.speech_ema) \div 100,
               0, 100)

SilenceStep ==
    /\ (Inferred /\ ~result'.is_speech) =>
          /\ resetLog'.heard.calls.backend = 0
          /\ resetLog'.heard.calls.process = 0
          /\ engine'.ema = engine.ema
          /\ engine'.has_ema = engine.has_ema
    /\ (Inferred /\ result'.is_speech) =>
          /\ resetLog'.heard.calls.backend = 1
          /\ result'.p_fake_smooth = SmoothFrom(resetLog.heard, result'.p_fake)

\* C23: a non-speech window invokes no backend and no enhancer.process and
\* leaves the EMA as it was; the p_fake_smooth of a speech window is computed
\* from the EMA the last preceding speech window left (p_fake itself if there
\* was none), however many silent windows lie in between
C23_SilenceLeavesTheSmootherAlone == [][SilenceStep]_vars

\* A speech window has been smoothed with the EMA of a speech window that lay
\* two silent windows back
C23_Witness ==
    /\ result.kind = "ok" /\ result.is_speech
    /\ resetLog.heard.gap >= 2
    /\ result.p_fake # NaN
    /\ result.p_fake_smooth # NaN
    /\ result.p_fake_smooth # result.p_fake
    /\ engine.enhancer.exists

-----------------------------------------------------------------------------
(* Properties of the enhancer's noise profile (checked under SpecSession) *)

\* The noise profile of the engine's enhancer
Profile(e) == <<e.enhancer.noise_mag, e.enhancer.noise_shape>>

ProfileStep ==
    /\ (inferred' = inferred + 1 /\ Profile(engine') # Profile(engine)) =>
          /\ result'.kind = "ok" /\ ~result'.is_speech
          /\ config.enhance.enabled /\ config.enhance.noise_reduction
    /\ (Inferred /\ result'.is_speech) =>
          /\ Profile(engine') = Profile(engine)
          /\ engine.enhancer.noise_mag = None => ~resetLog'.heard.calls.subtracted
          /\ engine.enhancer.noise_shape # fft_shape(resetLog'.heard.size) =>
                ~resetLog'.heard.calls.subtracted
    /\ inferred' = inferred + 1 => result'.kind = "ok"

\* C24: an infer_window call changes the noise profile only on a non-speech
\* window with enhancement and noise_reduction enabled; a speech window leaves
\* the profile as it was, is returned by the noise suppression as given while
\* no profile has been learned, and a profile of another shape than the
\* window's spectrum is not subtracted and nothing is raised
C24_ProfileLearnedFromSilenceOnly == [][ProfileStep]_vars

\* A speech window has been processed by an enhancer holding a profile of
\* another shape, learned from a silent window
C24_Witness ==
    /\ result.kind = "ok" /\ result.is_speech
    /\ resetLog.heard.calls.process = 1
    /\ engine.enhancer.noise_mag # None
    /\ engine.enhancer.noise_shape # fft_shape(resetLog.heard.size)
    /\ resetLog.heard.gap >= 1

-----------------------------------------------------------------------------
(* inference/hf_backend.py: _pick_fake_index.  A label is the sequence of its
   characters; id2label is the sequence of the dict's (index, label) items in
   insertion order, its indices distinct. *)

fake_keywords ==
    {<<"f", "a", "k", "e">>,
     <<"s", "p", "o", "o", "f">>,
     <<"s", "y", "n", "t", "h", "e", "t", "i", "c">>,
     <<"d", "e", "e", "p", "f", "a", "k", "e">>,
     <<"a", "i">>,
     <<"c", "l", "o", "n", "e">>,
     <<"t", "t", "s">>}

real_keywords ==
    {<<"r", "e", "a", "l">>,
     <<"b", "o", "n", "a", "f", "i", "d", "e">>,
     <<"b", "o", "n", "a", "-", "f", "i", "d", "e">>,
     <<"h", "u", "m", "a", "n">>,
     <<"g", "e", "n", "u", "i", "n", "e">>}

\* str.lower on the characters the labels use
lower_char(c) ==
    CASE c = "A" -> "a" [] c = "B" -> "b" [] c = "E" -> "e" [] c = "L" -> "l"
      [] c = "R" -> "r" [] c = "S" -> "s" [] OTHER -> c

\* str(label).lower()
lower(label) == [i \in 1..Len(label) |-> lower_char(label[i])]

\* k in l
Contains(l, k) ==
    \E i \in 1..(Len(l) - Len(k) + 1) : SubSeq(l, i, i + Len(k) - 1) = k

\* any(k in l for k in keywords), l the label in lower case
matches(label, keywords) == \E k \in keywords : Contains(lower(label), k)

\* The position of the first item whose label holds one of the keywords, 0 if
\* the loop ends without one
first_match(id2label, keywords) ==
    IF \E i \in 1..Len(id2label) : matches(id2label[i][2], keywords)
    THEN CHOOSE i \in 1..Len(id2label) :
            /\ matches(id2label[i][2], keywords)
            /\ \A j \in 1..(i - 1) : ~matches(id2label[j][2], keywords)
    ELSE 0

\* [i for i in id2label.keys() if int(i) != int(real_idx)]
other_keys(id2label, real_idx) ==
    SelectSeq([i \in 1..Len(id2label) |-> id2label[i][1]],
              LAMBDA k : k # real_idx)

pick_fake_index_realFirst(id2label) ==
    LET f == first_match(id2label, fake_keywords)
        r == first_match(id2label, real_keywords)
    IN  IF r # 0 /\ Len(id2label) = 2
           /\ other_keys(id2label, id2label[r][1]) # <<>>
        THEN other_keys(id2label, id2label[r][1])[1]
        ELSE IF f # 0 THEN id2label[f][1]
        ELSE 0

\* _pick_fake_index
pick_fake_index(id2label) ==
    LET f == first_match(id2label, fake_keywords)
        r == first_match(id2label, real_keywords)
    IN  IF f # 0 THEN id2label[f][1]
        ELSE IF r # 0 /\ Len(id2label) = 2
                /\ other_keys(id2label, id2label[r][1]) # <<>>
        THEN other_keys(id2label, id2label[r][1])[1]
        ELSE 0

-----------------------------------------------------------------------------
(* The classifier-head specification: one call of _pick_fake_index on the
   id2label of a head of up to MaxClasses classes *)

\* Labels of deepfake and anti-spoofing heads: with a fake keyword, with a real
\* keyword, with neither, with "ai" inside a word, with both
HeadLabels ==
    {<<"f", "a", "k", "e">>,
     <<"S", "p", "o", "o", "f">>,
     <<"R", "E", "A", "L">>,
     <<"b", "o", "n", "a", "f", "i", "d", "e">>,
     <<"L", "A", "B", "E", "L", "_", "0">>,
     <<"f", "a", "i", "r">>,
     <<"h", "u", "m", "a", "n", "_", "t", "t", "s">>}

\* The dicts of n items: distinct indices in any insertion order
Id2Labels(n) ==
    {d \in [1..n -> (0..(MaxClasses - 1)) \X HeadLabels] :
        \A i, j \in 1..n : i # j => d[i][1] # d[j][1]}

InitPick ==
    /\ IdleWin
    /\ IdleAlert
    /\ IdleEngine
    /\ IdleAnalyze
    /\ IdleLive
    /\ vad = [pc |-> "idle"]
    /\ entry = [pc |-> "idle"]
    /\ mic = [pc |-> "idle"]
    /\ tab = [pc |-> "idle"]
    /\ \E n \in 0..MaxClasses : \E d \in Id2Labels(n) :
          hf = [pc |-> "call", id2label |-> d, fake_idx |-> 0]

PickFakeIndex ==
    /\ hf.pc = "call"
    /\ hf' = [hf EXCEPT !.pc = "done", !.fake_idx = pick_fake_index(hf.id2label)]
    /\ UNCHANGED <<vad, entry, mic, tab, varsWin, varsAlert, varsEngine,
                   varsAnalyze, varsLive>>

NextPick == PickFakeIndex

SpecPick == InitPick /\ [][NextPick]_vars

-----------------------------------------------------------------------------
(* Properties of _pick_fake_index (checked under SpecPick) *)

HasFake(label) == matches(label, fake_keywords)
HasReal(label) == matches(label, real_keywords)

\* The labels of the head
LabelsOf(d) == {d[i][2] : i \in 1..Len(d)}

\* The index chosen is that of a label with a real keyword and no fake one
PickedRealOnly ==
    \E i \in 1..Len(hf.id2label) :
       /\ hf.id2label[i][1] = hf.fake_idx
       /\ HasReal(hf.id2label[i][2])
       /\ ~HasFake(hf.id2label[i][2])

\* Fake keywords first, then the class other than the first real one of a
\* two-class head, then index 0
Precedence ==
    LET d == hf.id2label
    IN  IF \E l \in LabelsOf(d) : HasFake(l)
        THEN \E i \in 1..Len(d) :
                /\ HasFake(d[i][2])
                /\ \A j \in 1..(i - 1) : ~HasFake(d[j][2])
                /\ hf.fake_idx = d[i][1]
        ELSE IF Len(d) = 2 /\ \E l \in LabelsOf(d) : HasReal(l)
        THEN \E i \in 1..2 :
                /\ HasReal(d[i][2])
                /\ \A j \in 1..(i - 1) : ~HasReal(d[j][2])
                /\ hf.fake_idx = d[3 - i][1]
        ELSE hf.fake_idx = 0

\* C25: _pick_fake_index resolves the fake class with the precedence fake
\* keyword, other class of a two-class head with a real keyword, index 0; and
\* the index chosen is never that of a label with a real keyword and no fake
\* keyword
C25_PrecedenceAndNeverRealLabel ==
    hf.pc = "done" => (Precedence /\ ~PickedRealOnly)

\* C25, amended: the precedence holds, and the index chosen is that of a label
\* with a real keyword and no fake keyword only when no label has a fake
\* keyword and either the head has two classes whose labels both have a real
\* keyword, or the head does not have two classes and the index is the
\* default 0
C25_PrecedenceAndRealLabelOnlyByDefault ==
    hf.pc = "done" =>
       /\ Precedence
       /\ PickedRealOnly =>
             /\ \A l \in LabelsOf(hf.id2label) : ~HasFake(l)
             /\ \/ /\ Len(hf.id2label) = 2
                   /\ \A l \in LabelsOf(hf.id2label) : HasReal(l)
                \/ Len(hf.id2label) # 2 /\ hf.fake_idx = 0

\* A two-class head whose first label has a real keyword and whose other
\* label has no keyword: the other class, which is not index 0, is chosen
C25_Witness ==
    /\ hf.pc = "done"
    /\ Len(hf.id2label) = 2
    /\ HasReal(hf.id2label[1][2])
    /\ \A l \in LabelsOf(hf.id2label) : ~HasFake(l)
    /\ ~HasReal(hf.id2label[2][2])
    /\ hf.fake_idx = hf.id2label[2][1]
    /\ hf.fake_idx # 0

-----------------------------------------------------------------------------
(* The capture-boundary specification: the audio callback delivers blocks of
   BlockSamples samples to the queue of maxsize 64 while the analyzer thread
   takes chunks and pushes them to its segmenter, at any relative speed.  The
   variable signal holds the samples the thread has received. *)

InitBoundary ==
    /\ IdleAlert
    /\ IdleEngine
    /\ IdleAnalyze
    /\ IdleEntry
    /\ live = [pc |-> "idle"]
    /\ ref = <<>>
    /\ capture = [NewCapture EXCEPT !.running = TRUE]
    /\ \E w \in 1..MaxClipWindow, h \in 1..MaxClipWindow :
          processor = NewProcessor(w, h)
    /\ signal = <<>>
    /\ emitted = <<>>
    /\ lastPush = [size |-> 0, windows |-> <<>>]

\* The audio callback delivers the next block
BoundaryCallback ==
    /\ capture.produced + BlockSamples <= (QueueMaxsize + MaxOverflow) * BlockSamples
    /\ capture' = [put_nowait(capture, ChunkAfter(capture.produced, BlockSamples))
                     EXCEPT !.produced = @ + BlockSamples]
    /\ UNCHANGED <<live, ref, varsWin, varsAlert, varsEngine, varsAnalyze, varsEntry>>

\* The loop of run takes a chunk and pushes it to the processor
BoundaryGet ==
    /\ \E g \in {queue_get(capture.queue)} :
          /\ g.kind = "chunk"
          /\ \E r \in {push(processor, g.chunk)} :
                /\ processor' = r.p
                /\ signal' = signal \o g.chunk
                /\ emitted' = emitted \o r.windows
                /\ lastPush' = [size |-> Len(g.chunk), windows |-> r.windows]
          /\ capture' = [capture EXCEPT !.queue = g.queue]
    /\ UNCHANGED <<live, ref, varsAlert, varsEngine, varsAnalyze, varsEntry>>

NextBoundary ==
    \/ BoundaryCallback
    \/ BoundaryGet

SpecBoundary == InitBoundary /\ [][NextBoundary]_vars

-----------------------------------------------------------------------------
(* Properties of the capture queue (checked under SpecBoundary) *)

\* The number of samples waiting in the queue
RECURSIVE Queued(_)
Queued(q) == IF q = <<>> THEN 0 ELSE Len(Head(q)) + Queued(Tail(q))

\* The samples of the window are a run of the received samples
IsRunOf(samples, received) ==
    \E k \in 0..(Len(received) - Len(samples)) :
       \A i \in 1..Len(samples) : samples[i] = received[k + i]

\* The number of samples the callback delivered that were discarded
Dropped == capture.produced - Len(signal) - Queued(capture.queue)

\* The callback has returned: the block is at the tail of the queue, or was
\* discarded at a full queue
CallbackStep ==
    /\ capture'.produced = capture.produced + BlockSamples
    /\ IF Len(capture.queue) = QueueMaxsize
       THEN capture'.queue = capture.queue
       ELSE capture'.queue =
               Append(capture.queue, ChunkAfter(capture.produced, BlockSamples))

\* The thread has taken the oldest chunk, and the windows its segmenter
\* returned carry on at the next multiples of hop, each a run of the samples
\* received (the run at start_sample when hop is at most the window)
GetStep ==
    /\ signal' = signal \o Head(capture.queue)
    /\ capture'.queue = Tail(capture.queue)
    /\ emitted' = emitted \o lastPush'.windows
    /\ \A i \in 1..Len(lastPush'.windows) :
          LET w == lastPush'.windows[i]
          IN  /\ w.start_sample = (Len(emitted) + i - 1) * processor.hop_samples
              /\ Len(w.samples) = processor.window_samples
              /\ IsRunOf(w.samples, signal')
              /\ processor.hop_samples <= processor.window_samples =>
                    w.samples = SubSeq(signal', w.start_sample + 1,
                                       w.start_sample + processor.window_samples)

BoundaryStep ==
    /\ Len(capture'.queue) <= QueueMaxsize
    /\ capture'.produced # capture.produced => CallbackStep
    /\ signal' # signal => GetStep

\* C26: the callback returns at once whatever the queue holds, the queue never
\* holds more than 64 chunks, a chunk arriving at a full queue is discarded
\* and the queued chunks stay as they are, chunks are taken in the order they
\* were enqueued, and after drops the windows still start at consecutive
\* multiples of hop and are runs of the samples received
C26_QueueIsBoundedDropOnFullFifo == [][BoundaryStep]_vars

\* A block was discarded at a full queue, and the thread has since emitted a
\* window that joins the samples before and after the gap
C26_Witness ==
    /\ Dropped > 0
    /\ \E i \in 1..Len(emitted) :
          \E j \in 1..(Len(emitted[i].samples) - 1) :
             emitted[i].samples[j + 1] > emitted[i].samples[j] + 1

-----------------------------------------------------------------------------
(* audio/mic_capture.py, audio/system_capture.py: start and the callback it
   defines.  The callback reads the local stream_sr of start each time it
   runs; the audio thread may run it as soon as stream.start() has been called.
   Rates are in kHz.  A chunk is given by the rate it declares and, as history,
   by the rate of the stream that produced it. *)

\* The rate of the configuration, and the other rate a device may default to
TargetRate == 16
DeviceRate == 48

\* MicCapture(...), and start called with the preferred rate on a device whose
\* default rate is default_sr and which accepts the rates in accepts
NewMic(default_sr, accepts) ==
    [pc |-> "start",
     preferred |-> TargetRate,
     default_sr |-> default_sr,
     accepts |-> accepts,
     running |-> FALSE,
     stream |-> 0,
     stream_sr |-> 0,
     tries |-> <<>>,
     sr |-> 0,
     returned |-> 0,
     queue |-> <<>>,
     taken |-> <<>>]

\* start up to the loop: the queue cleared, _running set, stream_sr the
\* preferred rate and the rates to try
start_begin(m) ==
    [m EXCEPT !.queue = <<>>,
              !.running = TRUE,
              !.stream_sr = m.preferred,
              !.tries = <<m.preferred, m.default_sr>>,
              !.pc = "open"]

\* for sr in (stream_sr, default_sr): sd.InputStream(samplerate=sr, ...) and
\* self._stream.start(), up to the assignment of stream_sr; after the last
\* rate was refused, _running is cleared and RuntimeError raised
start_open(m) ==
    IF m.tries = <<>>
    THEN [m EXCEPT !.running = FALSE, !.pc = "raised"]
    ELSE IF Head(m.tries) \in m.accepts
    THEN [m EXCEPT !.stream = Head(m.tries), !.sr = Head(m.tries),
                   !.pc = "assign"]
    ELSE [m EXCEPT !.stream = 0, !.tries = Tail(@)]

\* stream_sr = int(sr); break
start_assign(m) == [m EXCEPT !.stream_sr = m.sr, !.pc = "return"]

\* return int(stream_sr)
start_return(m) == [m EXCEPT !.returned = m.stream_sr, !.pc = "started"]

\* callback: AudioChunk(samples=mono, sample_rate=int(stream_sr)) is enqueued
\* unless the queue is full
mic_callback(m) ==
    IF ~m.running \/ Len(m.queue) >= QueueMaxsize THEN m
    ELSE [m EXCEPT !.queue = Append(@, [sample_rate |-> m.stream_sr,
                                        true_rate |-> m.stream])]

\* resample_needed and int(chunk.sample_rate) != int(target_sr)
resamples(actual_sr, target_sr, chunk) ==
    actual_sr # target_sr /\ chunk.sample_rate # target_sr

\* The loop of run takes the oldest chunk and resamples it or not
mic_take(m) ==
    [m EXCEPT !.queue = Tail(@),
              !.taken = Append(@, [chunk |-> Head(m.queue),
                                   resampled |-> resamples(m.returned, TargetRate,
                                                           Head(m.queue))])]

-----------------------------------------------------------------------------
(* The capture-start specification: start runs statement by statement while
   the audio thread calls the callback whenever a stream is running, and the
   live loop takes chunks once start has returned *)

InitMic ==
    /\ IdleWin
    /\ IdleAlert
    /\ IdleEngine
    /\ IdleAnalyze
    /\ IdleLive
    /\ vad = [pc |-> "idle"]
    /\ entry = [pc |-> "idle"]
    /\ hf = [pc |-> "idle"]
    /\ tab = [pc |-> "idle"]
    /\ \E default_sr \in {TargetRate, DeviceRate},
          accepts \in SUBSET {TargetRate, DeviceRate} :
          mic = NewMic(default_sr, accepts)

MicDone(m) ==
    /\ mic' = m
    /\ UNCHANGED <<vad, entry, hf, tab, varsWin, varsAlert, varsEngine,
                   varsAnalyze, varsLive>>

StartBegin == mic.pc = "start" /\ MicDone(start_begin(mic))

StartOpen == mic.pc = "open" /\ MicDone(start_open(mic))

StartAssign == mic.pc = "assign" /\ MicDone(start_assign(mic))

StartReturn == mic.pc = "return" /\ MicDone(start_return(mic))

\* The audio thread calls the callback of the running stream
MicCallback ==
    /\ mic.stream # 0
    /\ Len(mic.queue) + Len(mic.taken) < MaxMicChunks
    /\ MicDone(mic_callback(mic))

\* The live loop, entered after start has returned, takes a chunk
MicTake ==
    /\ mic.pc = "started"
    /\ mic.queue # <<>>
    /\ MicDone(mic_take(mic))

NextMic ==
    \/ StartBegin
    \/ StartOpen
    \/ StartAssign
    \/ StartReturn
    \/ MicCallback
    \/ MicTake

SpecMic == InitMic /\ [][NextMic]_vars

-----------------------------------------------------------------------------
(* Properties of the declared sample rate (checked under SpecMic) *)

\* C27: every chunk enqueued declares the rate of the stream that produced
\* it, under every interleaving of the callback with start, and the live loop
\* resamples every chunk whose true rate is not the target rate
C27_ChunksDeclareTheStreamRate ==
    /\ \A i \in 1..Len(mic.queue) :
          mic.queue[i].sample_rate = mic.queue[i].true_rate
    /\ \A i \in 1..Len(mic.taken) :
          /\ mic.taken[i].chunk.sample_rate = mic.taken[i].chunk.true_rate
          /\ mic.taken[i].chunk.true_rate # TargetRate => mic.taken[i].resampled

-----------------------------------------------------------------------------
(* ui/live_tab.py: LiveTab and the control flow of _LiveAnalyzerThread.run.
   Threads are numbered in the order _start creates them; LiveTab._thread is
   0 for None.  The signals a thread emits are queued for the GUI thread,
   which runs one slot at a time.  Durations are in half samples, as for
   StreamWindowProcessor. *)

\* A _LiveAnalyzerThread after start(): run has not reached capture.start;
\* stream tells whether the capture's audio stream is running
NewAnalyzerThread ==
    [pc |-> "start", interruption_requested |-> FALSE, stream |-> FALSE,
     started |-> FALSE, stops |-> 0]

\* LiveTab.__init__, with the durations of its configuration
NewLiveTab(window_half, hop_half) ==
    [pc |-> "shown",
     thread |-> 0,
     start_btn_enabled |-> TRUE,
     window |-> window_half,
     hop |-> hop_half,
     threads |-> <<>>,
     signals |-> <<>>]

\* capture.start succeeded, or raised: error.emit and return, after which
\* QThread emits finished
run_start(tb, i, ok) ==
    IF ok
    THEN [tb EXCEPT !.threads[i].stream = TRUE,
                    !.threads[i].started = TRUE,
                    !.threads[i].pc = "construct"]
    ELSE [tb EXCEPT !.threads[i].pc = "finished",
                    !.signals = @ \o <<[kind |-> "error", thread |-> i],
                                       [kind |-> "finished", thread |-> i]>>]

\* StreamWindowProcessor(...), VoiceGuardEngine(...), AlertTracker(...): the
\* ValueError of the segmenter leaves run, which is outside the try statement
run_construct(tb, i) ==
    IF StreamWindowProcessor(tb.window, tb.hop).kind = "ValueError"
    THEN [tb EXCEPT !.threads[i].pc = "finished",
                    !.signals = Append(@, [kind |-> "finished", thread |-> i])]
    ELSE [tb EXCEPT !.threads[i].pc = "loop"]

\* The while loop inside try: it ends when the interruption is requested, or
\* with an exception, which the except clause reports with error.emit
run_loop(tb, i, fault) ==
    IF tb.threads[i].interruption_requested
    THEN [tb EXCEPT !.threads[i].pc = "finally"]
    ELSE IF fault
    THEN [tb EXCEPT !.threads[i].pc = "finally",
                    !.signals = Append(@, [kind |-> "error", thread |-> i])]
    ELSE tb

\* finally: capture.stop(), and run returns
run_finally(tb, i) ==
    [tb EXCEPT !.threads[i].stream = FALSE,
               !.threads[i].stops = @ + 1,
               !.threads[i].pc = "finished",
               !.signals = Append(@, [kind |-> "finished", thread |-> i])]

\* LiveTab._start
tab_start(tb) ==
    IF tb.thread # 0 THEN tb
    ELSE [tb EXCEPT !.threads = Append(@, NewAnalyzerThread),
                    !.thread = Len(tb.threads) + 1]

\* LiveTab._stop: requestInterruption, and wait(1500) returns whether or not
\* the thread has finished
tab_stop(tb) ==
    IF tb.thread = 0 THEN tb
    ELSE [tb EXCEPT !.start_btn_enabled = FALSE,
                    !.threads[tb.thread].interruption_requested = TRUE]

\* LiveTab._toggle
tab_toggle(tb) == IF tb.thread = 0 THEN tab_start(tb) ELSE tab_stop(tb)

\* LiveTab._on_stopped
on_stopped(tb) == [tb EXCEPT !.start_btn_enabled = TRUE, !.thread = 0]

\* LiveTab._on_error: the message box, then _on_stopped
on_error(tb) == on_stopped(tb)

-----------------------------------------------------------------------------
(* The live-tab specification: the user clicks the Start/Stop button whenever
   it is enabled, the analyzer threads run, and the GUI thread runs the slots
   of the queued signals in the order they were emitted *)

InitTab ==
    /\ IdleWin
    /\ IdleAlert
    /\ IdleEngine
    /\ IdleAnalyze
    /\ IdleLive
    /\ vad = [pc |-> "idle"]
    /\ entry = [pc |-> "idle"]
    /\ hf = [pc |-> "idle"]
    /\ mic = [pc |-> "idle"]
    /\ \E window_half \in {0, 2}, hop_half \in {0, 2} :
          tab = NewLiveTab(window_half, hop_half)

TabDone(tb) ==
    /\ tab' = tb
    /\ UNCHANGED <<vad, entry, hf, mic, varsWin, varsAlert, varsEngine,
                   varsAnalyze, varsLive>>

\* A click on the Start/Stop button
Toggle ==
    /\ tab.start_btn_enabled
    /\ tab.thread = 0 => Len(tab.threads) < MaxThreads
    /\ TabDone(tab_toggle(tab))

\* The GUI thread runs the slot of the oldest queued signal
Deliver ==
    /\ tab.signals # <<>>
    /\ TabDone([(IF Head(tab.signals).kind = "error" THEN on_error(tab)
                 ELSE on_stopped(tab))
                  EXCEPT !.signals = Tail(tab.signals)])

RunStart(i, ok) == tab.threads[i].pc = "start" /\ TabDone(run_start(tab, i, ok))

RunConstruct(i) == tab.threads[i].pc = "construct" /\ TabDone(run_construct(tab, i))

RunLoop(i, fault) ==
    /\ tab.threads[i].pc = "loop"
    /\ tab.threads[i].interruption_requested \/ fault
    /\ TabDone(run_loop(tab, i, fault))

RunFinally(i) == tab.threads[i].pc = "finally" /\ TabDone(run_finally(tab, i))

NextTab ==
    \/ Toggle
    \/ Deliver
    \/ \E i \in 1..Len(tab.threads), ok \in BOOLEAN : RunStart(i, ok)
    \/ \E i \in 1..Len(tab.threads) : RunConstruct(i)
    \/ \E i \in 1..Len(tab.threads), fault \in BOOLEAN : RunLoop(i, fault)
    \/ \E i \in 1..Len(tab.threads) : RunFinally(i)

SpecTab == InitTab /\ [][NextTab]_vars

-----------------------------------------------------------------------------
(* Properties of the analyzer threads (checked under SpecTab) *)

\* The analyzer threads whose run has not returned
Running == {i \in 1..Len(tab.threads) : tab.threads[i].pc # "finished"}

\* C28: once capture.start has succeeded, capture.stop is called on every
\* path by which run ends, so no thread that has ended has left its audio
\* stream running
C28_StreamStoppedWhenRunEnds ==
    \A i \in 1..Len(tab.threads) :
       (tab.threads[i].pc = "finished" /\ tab.threads[i].started) =>
          (tab.threads[i].stops > 0 /\ ~tab.threads[i].stream)

\* C29: at most one analyzer thread is running at any time, and
\* LiveTab._thread is None only when no analyzer thread is running
C29_AtMostOneThreadRunning ==
    /\ Cardinality(Running) <= 1
    /\ tab.thread = 0 => Running = {}

-----------------------------------------------------------------------------
(* Properties of the segments analyze_audio reports (checked under
   SpecAnalyze).  Times are in samples: duration_sec is the clip's size. *)

\* Every segment of the summary lies in [0, limit]
SegmentsWithin(limit) ==
    \A i \in 1..Len(an.alert.segments) :
       LET seg == an.alert.segments[i]
       IN  0 <= seg.start_sec /\ seg.start_sec <= seg.end_sec /\ seg.end_sec <= limit

\* C30: every AlertSegment of the summary analyze_audio returns lies within
\* the clip, 0 <= start_sec <= end_sec <= duration_sec, for every clip length,
\* clips shorter than one window included
C30_SegmentsLieWithinTheClip == an.pc = "done" => SegmentsWithin(an.size)

\* C30, amended: every AlertSegment of the summary has
\* 0 <= start_sec <= end_sec, and end_sec <= duration_sec for a clip at least
\* one window long, and end_sec <= window_sec for a shorter clip, which is
\* zero-padded to a full window
C30_SegmentsLieWithinThePaddedClip ==
    an.pc = "done" =>
       SegmentsWithin(IF an.size >= an.window_samples THEN an.size
                      ELSE an.window_samples)

\* A clip shorter than one window has been analysed and the summary has a
\* segment, which ends at the end of the padded window
C30_Witness ==
    /\ an.pc = "done"
    /\ 0 < an.size /\ an.size < an.window_samples
    /\ Len(an.alert.segments) = 1
    /\ an.alert.segments[1].end_sec = an.window_samples

=============================================================================
